---- MODULE Spec2Model ----
(***************************************************************************)
(* A model of the chat relay of radiosilence/anthropic-play: the message   *)
(* sanitization and conversation validation of the relay endpoint, the     *)
(* relay handlers (direct streaming and channel mode) and the client's     *)
(* newline-delimited JSON read loop.                                       *)
(*                                                                         *)
(* Strings are sequences of one-character strings, so that trimming,       *)
(* splitting and framing are computed rather than assumed.                 *)
(***************************************************************************)
EXTENDS Integers, Sequences, FiniteSets, TLC

VARIABLES
    \* --- sanitization / validation pipeline (one request's messages) ---
    sPc,          \* "recv" | "sanitized" | "validated" | "resanitized"
    sInput,       \* the request's messages, as received
    sSanitized,   \* sanitizeMessages(sInput)
    sResult,      \* outcome of validateConversation(sSanitized)
    sTwice,       \* sanitizeMessages(sSanitized)
    \* --- one run of a relay handler ---
    rHandler,     \* which handler revision serves the request
    rBody,        \* the request body
    rEnv,         \* [apiKey: BOOLEAN], the process environment
    rPc,          \* "idle" | "streaming" | "final" | "done"
    rCalls,       \* number of provider streaming calls opened
    rArgs,        \* the messages handed to the provider
    rChunks,      \* the chunks the provider has yielded so far
    rFinal,       \* the provider's final message, once received
    rOut,         \* the StreamEvents emitted on the request's stream
    rClosed,      \* the response stream has been closed
    rResponse,    \* what the handler returned to the transport
    rEmitterErrors, \* "error" events emitted on the channel emitter
    rFailure,     \* which failure the run met ("none" if none)
    \* --- the client's read loop ---
    dWire,        \* the characters the server wrote, in order
    dPos,         \* how many of them the reader has delivered
    dReads,       \* number of reads delivered
    dEvents,      \* the StreamEvents the loop has handled
    dStatus       \* "reading" | "done" | "threw"

VARIABLES
    (* the chat controller *)
    cMode,          \* "direct", "channel" ("off": no controller)
    cMessages,      \* state: the message list
    cIsStreaming,   \* state: isStreaming
    cStreamingId,   \* state: streamingMessageId (NoId: null)
    cAccumulated,   \* state: accumulatedContent (channel controller)
    cAbort,         \* abortControllerRef.current, by the id of its request
    cView,          \* the values of the last render
    cRequests,      \* the sendMessage calls that passed the guard
    cCalls,         \* the number of sendMessage calls made
    cReads,         \* the number of reads / subscription events delivered
    (* the persisted mirror of the message list *)
    cStore,         \* localStorage["chat-messages"]
    cBoot,          \* what the load effect found when the controller mounted
    cCrashed,       \* an exception left the load effect
    (* the channel registry of the channel relay *)
    channelEmitters, \* the channelEmitters map: channelId -> emitter
    gEmitted,       \* for every emitter made, the events emitted on it
    gRuns,          \* the sendMessages calls
    gSubs,          \* the onMessageChunk subscriptions
    gTimers,        \* the runs whose cleanup timer is pending
    (* the useStreamingRequest hook *)
    qTimeout,       \* the timeout option
    qIsStreaming,   \* state.isStreaming
    qError,         \* state.error
    qChunksReceived, \* state.chunksReceived
    qController,    \* abortControllerRef.current
    qTimeoutId,     \* timeoutIdRef.current
    qTimers,        \* the timers that are set
    qCalls,         \* the calls of onDelta, onComplete and onError
    qRendered,      \* state.isStreaming of the last render
    qStarts,        \* the number of start() calls made
    qHandled,       \* the number of handleChunk() calls made
    (* the useRequestQueue hook *)
    uQueue,         \* the queue state, after every queued update
    uActive,        \* the activeRequests state, after every queued update
    uView,          \* queue and activeRequests.size of the last render
    uIsProcessing,  \* isProcessing.current
    uStamps,        \* the length of requestTimestamps.current
    uRun,           \* the processQueue call that is awaiting an execute()
    uTimers,        \* the pending setTimeout(() => processQueue(), 100)
    uExecuted,      \* per request, the number of execute() calls
    uCallbacks,     \* the calls of onComplete and onError
    uEnqueued,      \* the number of enqueue() calls made
    (* the retrying fetch of the tRPC batch link *)
    fPc,            \* where the fetch option is
    fI,             \* the loop variable i
    fCalls,         \* the number of fetch(url, options) calls made
    fAttempts,      \* how the calls settled, in order
    fLastError,     \* lastError
    fResult         \* what the fetch option returned or threw

sanVars == <<sPc, sInput, sSanitized, sResult, sTwice>>
relayVars == <<rHandler, rBody, rEnv, rPc, rCalls, rArgs, rChunks, rFinal, rOut,
               rClosed, rResponse, rEmitterErrors, rFailure>>
decVars == <<dWire, dPos, dReads, dEvents, dStatus>>
chatVars == <<cMode, cMessages, cIsStreaming, cStreamingId, cAccumulated, cAbort,
              cView, cRequests, cCalls, cReads>>
storeVars == <<cStore, cBoot, cCrashed>>
regVars == <<channelEmitters, gEmitted, gRuns, gSubs, gTimers>>
reqVars == <<qTimeout, qIsStreaming, qError, qChunksReceived, qController, qTimeoutId,
             qTimers, qCalls, qRendered, qStarts, qHandled>>
queueVars == <<uQueue, uActive, uView, uIsProcessing, uStamps, uRun, uTimers,
               uExecuted, uCallbacks, uEnqueued>>
fetchVars == <<fPc, fI, fCalls, fAttempts, fLastError, fResult>>
vars == <<sanVars, relayVars, decVars, chatVars, storeVars, regVars, reqVars,
          queueVars, fetchVars>>

\* what the steps of one part of the program leave alone
notSanitize == <<relayVars, decVars, chatVars, storeVars, regVars, reqVars, queueVars, fetchVars>>
notRelay == <<sanVars, decVars, chatVars, storeVars, regVars, reqVars, queueVars, fetchVars>>
notDecoder == <<sanVars, relayVars, chatVars, storeVars, regVars, reqVars, queueVars, fetchVars>>
notChat == <<sanVars, relayVars, decVars, regVars, reqVars, queueVars, fetchVars>>
notRequest == <<sanVars, relayVars, decVars, chatVars, storeVars, regVars, queueVars, fetchVars>>
notChannel == <<sanVars, relayVars, decVars, chatVars, storeVars, reqVars, queueVars, fetchVars>>
notQueue == <<sanVars, relayVars, decVars, chatVars, storeVars, regVars, reqVars, fetchVars>>
notFetch == <<sanVars, relayVars, decVars, chatVars, storeVars, regVars, reqVars, queueVars>>

(***************************************************************************)
(* Bounds of the model.                                                    *)
(***************************************************************************)
MaxMsgs == 3        \* longest enumerated message list
MaxChunks == 3      \* most chunks the provider yields in one stream
MaxFrames == 2      \* most frames on the wire in one response
MaxCalls == 2       \* most sendMessage calls made on one controller
MaxReads == 2       \* most reads / subscription events one controller is given
MaxRequests == 3    \* most sendMessages and onMessageChunk calls the channel relay is sent
MaxDeltas == 1      \* most text deltas of one run
MaxStarts == 2      \* most start() calls on one useStreamingRequest
MaxHandled == 2     \* most handleChunk() calls on one useStreamingRequest
MaxEnqueued == 2    \* most enqueue() calls made on one useRequestQueue
RequestsPerMinute == 2  \* the requestsPerMinute option of the queue

Roles == {"user", "assistant"}
Whitespace == {" ", "\n"}

\* All sequences over S of length at most n.
SeqUpTo(S, n) == UNION {[1..k -> S] : k \in 0..n}

\* A string of n copies of the character c.
Rep(c, n) == [i \in 1..n |-> c]

(***************************************************************************)
(* String.prototype.trim                                                   *)
(***************************************************************************)
IsBlank(s) == \A i \in 1..Len(s) : s[i] \in Whitespace

trim(s) ==
    IF IsBlank(s) THEN <<>>
    ELSE LET first == CHOOSE i \in 1..Len(s) :
                         s[i] \notin Whitespace /\ \A j \in 1..(i-1) : s[j] \in Whitespace
             last  == CHOOSE i \in 1..Len(s) :
                         s[i] \notin Whitespace /\ \A j \in (i+1)..Len(s) : s[j] \in Whitespace
         IN  SubSeq(s, first, last)

(***************************************************************************)
(* sanitizeMessages                                                        *)
(***************************************************************************)
\* Array.prototype.filter: the elements lo..hi of arr whose index is in K,
\* in order
RECURSIVE PickIn(_, _, _, _)
PickIn(arr, lo, hi, K) ==
    IF lo > hi THEN <<>>
    ELSE IF lo = hi THEN (IF lo \in K THEN <<arr[lo]>> ELSE <<>>)
    ELSE PickIn(arr, lo, (lo + hi) \div 2, K) \o PickIn(arr, (lo + hi) \div 2 + 1, hi, K)

PickFrom(arr, i, K) == PickIn(arr, i, Len(arr), K)

HasContent(arr, i) == Len(trim(arr[i].content)) > 0

TrimContent(arr) ==
    [i \in 1..Len(arr) |-> [role |-> arr[i].role, content |-> trim(arr[i].content)]]

LastOfRun(arr, i) == i = Len(arr) \/ arr[i].role # arr[i + 1].role

FirstOfRun(arr, i) == i = 1 \/ arr[i].role # arr[i - 1].role

\* the messages whose content does not trim to empty
WithContent(arr) == PickFrom(arr, 1, {i \in 1..Len(arr) : HasContent(arr, i)})

\* the messages that are not followed by a message of the same role
RunEnds(arr) == PickFrom(arr, 1, {i \in 1..Len(arr) : LastOfRun(arr, i)})

RunStarts(arr) == PickFrom(arr, 1, {i \in 1..Len(arr) : FirstOfRun(arr, i)})

\* sanitizeMessages that keeps the first message of each run
sanitizeKeepFirst(messages) == RunStarts(TrimContent(WithContent(messages)))

\* sanitizeMessages that collapses runs before it drops the empty messages
sanitizeCollapseFirst(messages) == WithContent(TrimContent(RunEnds(messages)))

sanitizeMessages(messages) == RunEnds(TrimContent(WithContent(messages)))

(***************************************************************************)
(* validateConversation                                                    *)
(***************************************************************************)
MaxMessageLength == 10000
MaxConversationLength == 100

Threw(msg) == [ok |-> FALSE, error |-> msg, value |-> <<>>]
Returned(v) == [ok |-> TRUE, error |-> "", value |-> v]

\* validateConversation whose conversation-length check is off by one
validateOffByOne(messages) ==
    IF Len(messages) = 0 THEN Threw("No valid messages found")
    ELSE IF messages[Len(messages)].role # "user"
         THEN Threw("Conversation must end with a user message")
    ELSE IF \E i \in 1..Len(messages) : Len(messages[i].content) > MaxMessageLength
         THEN Threw("Message too long (max 10,000 characters)")
    ELSE IF Len(messages) >= MaxConversationLength
         THEN Threw("Conversation too long (max 100 messages)")
    ELSE Returned(messages)

validateConversation(messages) ==
    IF Len(messages) = 0 THEN Threw("No valid messages found")
    ELSE IF messages[Len(messages)].role # "user"
         THEN Threw("Conversation must end with a user message")
    ELSE IF \E i \in 1..Len(messages) : Len(messages[i].content) > MaxMessageLength
         THEN Threw("Message too long (max 10,000 characters)")
    ELSE IF Len(messages) > MaxConversationLength
         THEN Threw("Conversation too long (max 100 messages)")
    ELSE Returned(messages)

(***************************************************************************)
(* The requests the pipeline is run on.                                    *)
(***************************************************************************)
Contents == { <<>>, <<" ">>, <<"a">>, <<" ", "a", "\n">>, <<"b">>, <<"a", " ", "b">> }

Messages == [role : Roles, content : Contents]

SmallInputs == SeqUpTo(Messages, MaxMsgs)

OtherRole(r) == IF r = "user" THEN "assistant" ELSE "user"

\* A conversation of n alternating turns that ends with role `last`, whose
\* final turn has k characters.
Conversation(n, last, k) ==
    [i \in 1..n |->
        [role |-> IF (n - i) % 2 = 0 THEN last ELSE OtherRole(last),
         content |-> IF i = n THEN Rep("a", k) ELSE <<"a">>]]

LargeInputs ==
    { Conversation(n, last, k) :
        n \in {MaxConversationLength - 1, MaxConversationLength, MaxConversationLength + 1},
        last \in Roles,
        k \in {1, MaxMessageLength, MaxMessageLength + 1} }
    \cup
    { Conversation(n, "user", k) : n \in 1..2, k \in {MaxMessageLength, MaxMessageLength + 1} }

NoResult == [ok |-> FALSE, error |-> "not run", value |-> <<>>]

SanIdle ==
    /\ sPc = "off" /\ sInput = <<>> /\ sSanitized = <<>>
    /\ sResult = NoResult /\ sTwice = <<>>

SanInit ==
    /\ sPc = "recv"
    /\ sInput \in SmallInputs \cup LargeInputs
    /\ sSanitized = <<>>
    /\ sResult = NoResult
    /\ sTwice = <<>>

Sanitize ==
    /\ sPc = "recv"
    /\ sSanitized' = sanitizeMessages(sInput)
    /\ sPc' = "sanitized"
    /\ UNCHANGED <<sInput, sResult, sTwice>>

Validate ==
    /\ sPc = "sanitized"
    /\ sResult' = validateConversation(sSanitized)
    /\ sPc' = "validated"
    /\ UNCHANGED <<sInput, sSanitized, sTwice>>

Resanitize ==
    /\ sPc = "sanitized"
    /\ sTwice' = sanitizeMessages(sSanitized)
    /\ sPc' = "resanitized"
    /\ UNCHANGED <<sInput, sSanitized, sResult>>


(***************************************************************************)
(* The relay handlers.  Four revisions serve a chat request:               *)
(*   handleChatRequest    direct streaming, sanitizes and validates        *)
(*   postApiChat          direct streaming, POST /api/chat of the server   *)
(*   sendMessagesChannel  channel mode, one emitter per channelId          *)
(*   sendMessagesGlobal   channel mode, one process-wide emitter           *)
(***************************************************************************)
DirectHandlers == {"handleChatRequest", "postApiChat"}
ChannelHandlers == {"sendMessagesChannel", "sendMessagesGlobal"}
Handlers == DirectHandlers \cup ChannelHandlers

\* Request bodies: one that fails ChatRequestSchema, and schema-valid ones.
Msg(r, c) == [role |-> r, content |-> c]

Bodies ==
    { [schemaOk |-> FALSE, messages |-> <<>>] }
    \cup
    { [schemaOk |-> TRUE, messages |-> ms] :
        ms \in { <<>>,
                 << Msg("user", <<"a">>) >>,
                 << Msg("user", <<" ">>) >>,
                 << Msg("assistant", <<"a">>) >>,
                 << Msg("user", <<"a">>), Msg("user", <<"b">>) >>,
                 << Msg("user", <<"a">>), Msg("assistant", <<"b">>) >>,
                 << Msg("user", <<"a">>), Msg("assistant", <<" ">>),
                    Msg("user", <<" ", "a", "\n">>) >>,
                 Conversation(MaxConversationLength + 1, "user", 1) } }

\* What the handler has handed back to the transport layer.
Pending == [status |-> 0, kind |-> "pending", error |-> ""]
JsonResponse(st, err) == [status |-> st, kind |-> "json", error |-> err]
StreamResponse == [status |-> 200, kind |-> "stream", error |-> ""]
Acknowledged == [status |-> 200, kind |-> "ack", error |-> ""]
\* an exception left the procedure: tRPC answers INTERNAL_SERVER_ERROR
RawException(err) == [status |-> 500, kind |-> "exception", error |-> err]

\* The provider's stream events: text deltas and everything else
\* (message_start, content_block_start, input_json_delta, ...).
Texts == { <<"x">>, <<"y", "z">> }
ProviderChunks ==
    { [type |-> "text_delta", text |-> t] : t \in Texts } \cup { [type |-> "other", text |-> <<>>] }

IsTextDelta(chunk) == chunk.type = "text_delta"

RECURSIVE Flatten(_)
Flatten(ss) == IF ss = <<>> THEN <<>> ELSE Head(ss) \o Flatten(Tail(ss))

\* stream.finalMessage(): the message the SDK accumulated from the stream;
\* `valid` says whether it passes MessageSchema.
FinalMessage(chunks, valid) ==
    LET deltas == SelectSeq(chunks, IsTextDelta)
    IN  [text |-> Flatten([i \in 1..Len(deltas) |-> deltas[i].text]), valid |-> valid]

\* StreamEvents
\* a delta event that carries the text accumulated so far
DeltaEventAccumulated(chunks, chunk) ==
    [type |-> "delta", content |-> FinalMessage(Append(chunks, chunk), TRUE).text]

DeltaEvent(chunks, chunk) == [type |-> "delta", content |-> chunk.text]
CompleteEvent(final) == [type |-> "complete", response |-> final]
ErrorEvent(msg) == [type |-> "error", error |-> msg]

\* StreamingResponseSchema.parse(data) succeeds
SchemaAccepts(ev) == ev.type = "complete" => ev.response.valid

\* enqueue of handleChatRequest: a failure to validate is logged and dropped
enqueueLogged(out, ev) == IF SchemaAccepts(ev) THEN Append(out, ev) ELSE out

\* enqueue of postApiChat: a failure to validate is thrown to the caller
enqueueThrowing(out, ev) ==
    IF SchemaAccepts(ev) THEN [out |-> Append(out, ev), threw |-> FALSE]
    ELSE [out |-> out, threw |-> TRUE]

\* enqueue of the channel handlers: emit("chunk", data), unvalidated
emitChunk(out, ev) == Append(out, ev)

enqueueDelta(h, out, ev) ==
    CASE h = "handleChatRequest" -> enqueueLogged(out, ev)
      [] h = "postApiChat" -> enqueueThrowing(out, ev).out
      [] OTHER -> emitChunk(out, ev)

RelayInit ==
    /\ rHandler \in Handlers
    /\ rBody \in Bodies
    /\ rEnv \in [apiKey : BOOLEAN]
    /\ rHandler # "handleChatRequest" => rEnv.apiKey
    /\ rPc = "idle"
    /\ rCalls = 0 /\ rArgs = <<>> /\ rChunks = <<>> /\ rFinal = <<>>
    /\ rOut = <<>> /\ rClosed = FALSE /\ rResponse = Pending
    /\ rEmitterErrors = 0 /\ rFailure = "none"

\* anthropic.messages.stream({..., messages})
OpenProvider(messages) ==
    /\ rCalls' = rCalls + 1
    /\ rArgs' = messages
    /\ rPc' = "streaming"

\* the request ends before any provider call
Refuse(response, failure) ==
    /\ rResponse' = response
    /\ rFailure' = failure
    /\ rPc' = "done"
    /\ UNCHANGED <<rCalls, rArgs>>

\* handleChatRequest, up to the provider call made as the stream starts
HandleChatRequest ==
    /\ rHandler = "handleChatRequest" /\ rPc = "idle"
    /\ LET v == validateConversation(sanitizeMessages(rBody.messages))
       IN  IF ~rBody.schemaOk
             THEN Refuse(JsonResponse(400, "Invalid request format"), "schema")
           ELSE IF ~v.ok
             THEN Refuse(JsonResponse(500, "Internal server error"), "validation")
           ELSE IF ~rEnv.apiKey
             THEN Refuse(JsonResponse(500, "Anthropic API key not configured"), "config")
           ELSE /\ OpenProvider(v.value)
                /\ rResponse' = StreamResponse
                /\ UNCHANGED rFailure
    /\ UNCHANGED <<rHandler, rBody, rEnv, rChunks, rFinal, rOut, rClosed, rEmitterErrors>>

\* POST /api/chat, up to the provider call made as the stream starts
PostApiChat ==
    /\ rHandler = "postApiChat" /\ rPc = "idle"
    /\ IF ~rBody.schemaOk
         THEN Refuse(JsonResponse(400, "Invalid request"), "schema")
       ELSE /\ OpenProvider(rBody.messages)
            /\ rResponse' = StreamResponse
            /\ UNCHANGED rFailure
    /\ UNCHANGED <<rHandler, rBody, rEnv, rChunks, rFinal, rOut, rClosed, rEmitterErrors>>

\* sendMessages with per-channel emitters, up to the provider call
SendMessagesChannel ==
    /\ rHandler = "sendMessagesChannel" /\ rPc = "idle"
    /\ LET v == validateConversation(sanitizeMessages(rBody.messages))
       IN  IF ~rBody.schemaOk
             THEN /\ Refuse(JsonResponse(400, "BAD_REQUEST"), "schema")
                  /\ UNCHANGED rEmitterErrors
           ELSE IF ~v.ok
             THEN /\ Refuse(RawException(v.error), "validation")
                  /\ rEmitterErrors' = rEmitterErrors + 1
           ELSE /\ OpenProvider(v.value)
                /\ UNCHANGED <<rResponse, rFailure, rEmitterErrors>>
    /\ UNCHANGED <<rHandler, rBody, rEnv, rChunks, rFinal, rOut, rClosed>>

\* sendMessages with the process-wide emitter, up to the provider call
SendMessagesGlobal ==
    /\ rHandler = "sendMessagesGlobal" /\ rPc = "idle"
    /\ LET v == validateConversation(sanitizeMessages(rBody.messages))
       IN  IF ~rBody.schemaOk
             THEN Refuse(JsonResponse(400, "BAD_REQUEST"), "schema")
           ELSE IF ~v.ok
             THEN Refuse(RawException(v.error), "validation")
           ELSE /\ OpenProvider(v.value)
                /\ UNCHANGED <<rResponse, rFailure>>
    /\ UNCHANGED <<rHandler, rBody, rEnv, rChunks, rFinal, rOut, rClosed, rEmitterErrors>>

\* for await (const chunk of stream): one chunk arrives
ProviderChunk(chunk) ==
    /\ rPc = "streaming"
    /\ Len(rChunks) < MaxChunks
    /\ rChunks' = Append(rChunks, chunk)
    /\ rOut' = IF IsTextDelta(chunk)
               THEN enqueueDelta(rHandler, rOut, DeltaEvent(rChunks, chunk))
               ELSE rOut
    /\ UNCHANGED <<rHandler, rBody, rEnv, rPc, rCalls, rArgs, rFinal, rClosed,
                   rResponse, rEmitterErrors, rFailure>>

\* the provider stream ends; the handler awaits stream.finalMessage()
ProviderEnd ==
    /\ rPc = "streaming"
    /\ rPc' = "final"
    /\ UNCHANGED <<rHandler, rBody, rEnv, rCalls, rArgs, rChunks, rFinal, rOut,
                   rClosed, rResponse, rEmitterErrors, rFailure>>

\* What each handler does with the final message: the events on the stream
\* afterwards, whether the stream is closed, the response and the failure.
\* complete is written before it is validated
completeUnvalidated(out, final) ==
    IF final.valid
    THEN [out |-> Append(out, CompleteEvent(final)), failure |-> "none"]
    ELSE [out |-> Append(Append(out, CompleteEvent(final)), ErrorEvent("invalid response")),
          failure |-> "encoding"]

completeLogged(out, final) ==
    [out |-> enqueueLogged(out, CompleteEvent(final)),
     failure |-> IF SchemaAccepts(CompleteEvent(final)) THEN "none" ELSE "encoding"]

completeThrowing(out, final) ==
    LET r == enqueueThrowing(out, CompleteEvent(final))
    IN  IF r.threw
        THEN [out |-> enqueueThrowing(r.out, ErrorEvent("invalid response")).out,
              failure |-> "encoding"]
        ELSE [out |-> r.out, failure |-> "none"]

completeEmitted(out, final) ==
    [out |-> emitChunk(out, CompleteEvent(final)), failure |-> "none"]

\* stream.finalMessage() resolves
FinalMessageReceived(valid) ==
    /\ rPc = "final"
    /\ LET final == FinalMessage(rChunks, valid)
           r == CASE rHandler = "handleChatRequest" -> completeLogged(rOut, final)
                  [] rHandler = "postApiChat" -> completeThrowing(rOut, final)
                  [] OTHER -> completeEmitted(rOut, final)
       IN  /\ rFinal' = <<final>>
           /\ rOut' = r.out
           /\ rFailure' = r.failure
    /\ rClosed' = (rHandler \in DirectHandlers)
    /\ rResponse' = IF rHandler \in ChannelHandlers THEN Acknowledged ELSE rResponse
    /\ rPc' = "done"
    /\ UNCHANGED <<rHandler, rBody, rEnv, rCalls, rArgs, rChunks, rEmitterErrors>>

\* The catch block of the direct handlers: enqueue({type: "error", ...}).
catchDirect(h, out, msg) ==
    IF h = "handleChatRequest" THEN enqueueLogged(out, ErrorEvent(msg))
    ELSE enqueueThrowing(out, ErrorEvent(msg)).out

\* the provider stream, or stream.finalMessage(), throws
ProviderThrow ==
    /\ rPc \in {"streaming", "final"}
    /\ rFailure' = "provider"
    /\ rPc' = "done"
    /\ CASE rHandler \in DirectHandlers ->
              /\ rOut' = catchDirect(rHandler, rOut, "provider error")
              /\ rClosed' = TRUE
              /\ UNCHANGED <<rResponse, rEmitterErrors>>
         [] rHandler = "sendMessagesChannel" ->
              /\ rEmitterErrors' = rEmitterErrors + 1
              /\ rResponse' = RawException("provider error")
              /\ UNCHANGED <<rOut, rClosed>>
         [] rHandler = "sendMessagesGlobal" ->
              /\ rResponse' = RawException("provider error")
              /\ UNCHANGED <<rOut, rClosed, rEmitterErrors>>
    /\ UNCHANGED <<rHandler, rBody, rEnv, rCalls, rArgs, rChunks, rFinal>>

(***************************************************************************)
(* The wire format and the client's read loop (useChat, direct mode).      *)
(*                                                                         *)
(* JSON.stringify of an event is modelled as a brace-delimited string:     *)
(* "{", a tag for the type, the payload, "}".  A frame is that string and  *)
(* a newline.  JSON.parse accepts exactly the well-formed strings, so no   *)
(* proper prefix or suffix of a frame parses.                              *)
(***************************************************************************)
ErrorCode(msg) == IF msg = "provider error" THEN "p" ELSE "i"
PayloadChars == {"x", "y", "z", "p", "i"}

\* an object that is JSON but no StreamEvent
UnknownEvent == [type |-> "ping"]

\* JSON.stringify(event)
Stringify(ev) ==
    CASE ev.type = "delta" -> <<"{", "d">> \o ev.content \o <<"}">>
      [] ev.type = "complete" -> <<"{", "c">> \o ev.response.text \o <<"}">>
      [] ev.type = "error" -> <<"{", "e", ErrorCode(ev.error), "}">>
      [] OTHER -> <<"{", "q", "}">>

\* the frame the relay writes: `${JSON.stringify(validated)}\n`
Frame(ev) == Stringify(ev) \o <<"\n">>

\* JSON.parse(line) returns (it throws a SyntaxError otherwise)
Parses(line) ==
    /\ Len(line) >= 3
    /\ line[1] = "{" /\ line[Len(line)] = "}"
    /\ line[2] \in {"d", "c", "e", "q"}
    /\ \A i \in 3..(Len(line) - 1) : line[i] \in PayloadChars
    /\ line[2] = "q" => Len(line) = 3
    /\ line[2] = "e" => Len(line) = 4 /\ line[3] \in {"p", "i"}

\* a parse that reads every frame as a delta, whatever its type tag
ParsedUntagged(line) ==
    [type |-> "delta", content |-> SubSeq(line, 3, Len(line) - 1)]

\* JSON.parse(line), for a line that parses
Parsed(line) ==
    LET payload == SubSeq(line, 3, Len(line) - 1)
    IN  CASE line[2] = "d" -> [type |-> "delta", content |-> payload]
          [] line[2] = "c" -> [type |-> "complete",
                               response |-> [text |-> payload, valid |-> TRUE]]
          [] line[2] = "e" -> [type |-> "error",
                               error |-> IF payload = <<"p">> THEN "provider error"
                                         ELSE "invalid response"]
          [] OTHER -> UnknownEvent

\* StreamingResponseSchema.safeParse(value) succeeds
IsStreamEvent(value) == value.type \in {"delta", "complete", "error"}

\* chunk.split("\n")
RECURSIVE Split(_)
Split(s) ==
    IF \A i \in 1..Len(s) : s[i] # "\n" THEN <<s>>
    ELSE LET n == CHOOSE i \in 1..Len(s) :
                      s[i] = "\n" /\ \A j \in 1..(i - 1) : s[j] # "\n"
         IN  <<SubSeq(s, 1, n - 1)>> \o Split(SubSeq(s, n + 1, Len(s)))

\* The for loop over the lines of one read, from line i on: the events
\* handled and how the loop ended ("reading": it ran to the end of the
\* lines; "syntaxError": JSON.parse threw; "streamError": an error event was
\* thrown).
RECURSIVE HandleLines(_, _, _)
HandleLines(lines, i, events) ==
    IF i > Len(lines) THEN [events |-> events, status |-> "reading"]
    ELSE IF IsBlank(lines[i]) THEN HandleLines(lines, i + 1, events)
    ELSE IF ~Parses(lines[i]) THEN [events |-> events, status |-> "syntaxError"]
    ELSE IF ~IsStreamEvent(Parsed(lines[i])) THEN HandleLines(lines, i + 1, events)
    ELSE IF Parsed(lines[i]).type = "error"
         THEN [events |-> Append(events, Parsed(lines[i])), status |-> "streamError"]
    ELSE HandleLines(lines, i + 1, Append(events, Parsed(lines[i])))

\* one pass of the loop body on the text of one read
HandleRead(chunk, events) == HandleLines(Split(chunk), 1, events)

WireEvents ==
    { [type |-> "delta", content |-> t] : t \in Texts }
    \cup { CompleteEvent([text |-> t, valid |-> TRUE]) : t \in {<<>>, <<"x">>} }
    \cup { ErrorEvent("provider error"), UnknownEvent }

Wire(frames) == Flatten([i \in 1..Len(frames) |-> Frame(frames[i])])

DecInit ==
    /\ dWire \in { Wire(frames) : frames \in SeqUpTo(WireEvents, MaxFrames) }
    /\ dPos = 0
    /\ dReads = 0
    /\ dEvents = <<>>
    /\ dStatus = "reading"

\* reader.read() resolves with the next k characters of the body
Read(k) ==
    /\ dStatus = "reading"
    /\ dPos + k <= Len(dWire)
    /\ LET r == HandleRead(SubSeq(dWire, dPos + 1, dPos + k), dEvents)
       IN  /\ dEvents' = r.events
           /\ dStatus' = r.status
    /\ dPos' = dPos + k
    /\ dReads' = dReads + 1
    /\ UNCHANGED dWire

\* reader.read() resolves with done: the body has ended
ReadDone ==
    /\ dStatus = "reading"
    /\ dPos = Len(dWire)
    /\ dStatus' = "done"
    /\ UNCHANGED <<dWire, dPos, dReads, dEvents>>

(***************************************************************************)
(* The chat controller (the useChat hook), in its two revisions:           *)
(*   "direct"   reads the body of POST /api/chat itself                    *)
(*   "channel"  sends through the sendMessages mutation and is fed by the  *)
(*              onMessageChunk subscription                                *)
(* React state is kept twice: the c* variables hold the state after every  *)
(* queued update, cView holds the values the last render handed to the     *)
(* callbacks.  Updaters (prev => ...) act on the state; everything a       *)
(* callback reads by name is read from cView.  The ref and the locals of   *)
(* a running sendMessage are not React state and are read directly.        *)
(***************************************************************************)
NoId == 0

ChatMessage(id, role, content) == [id |-> id, role |-> role, content |-> content]

\* what sendMessage can be called with
SendContents == { <<" ">>, <<" ", "a">> }

\* the values of one render
View(messages, isStreaming, streamingMessageId, accumulatedContent) ==
    [messages |-> messages, isStreaming |-> isStreaming,
     streamingMessageId |-> streamingMessageId,
     accumulatedContent |-> accumulatedContent]

CurrentView == View(cMessages, cIsStreaming, cStreamingId, cAccumulated)

\* generateId(): the ids of the n-th accepted sendMessage
UserId(n) == 2 * n - 1
AssistantId(n) == 2 * n

\* the guard of sendMessage that looks at the content only as given
GuardUntrimmed(content, isStreaming) == content = <<>> \/ isStreaming

\* `if (!content.trim() || isStreaming) return;`
SendGuard(content, isStreaming) == trim(content) = <<>> \/ isStreaming

\* the request body that keeps every message as it is
apiMessagesUnfiltered(messages, userMessage) ==
    LET all == Append(messages, userMessage)
    IN  [i \in 1..Len(all) |-> Msg(all[i].role, all[i].content)]

\* [...messages, userMessage].filter(non-blank).map({role, content.trim()})
apiMessages(messages, userMessage) ==
    TrimContent(WithContent(Append(messages, userMessage)))

\* a map that writes the content into every message of the role of the target
SetContentOfRole(prev, id, content) ==
    [i \in 1..Len(prev) |->
        IF \E j \in 1..Len(prev) : prev[j].id = id /\ prev[j].role = prev[i].role
        THEN [prev[i] EXCEPT !.content = content] ELSE prev[i]]

\* prev.map(msg => msg.id === id ? {...msg, content} : msg)
SetContent(prev, id, content) ==
    [i \in 1..Len(prev) |->
        IF prev[i].id = id THEN [prev[i] EXCEPT !.content = content] ELSE prev[i]]

\* prev.filter(msg => msg.id !== id)
RemoveMessage(prev, id) ==
    LET keep == { i \in 1..Len(prev) : prev[i].id # id }
    IN  PickFrom(prev, 1, keep)

\* `Error: ${error.message}`
ErrorAnnotation(message) == <<"Error: ", message>>

\* One sendMessage call that passed the guard: its placeholder id, the body
\* it sent, where it waits ("fetch", "read", "mutate") or "done", whether
\* its AbortController has been aborted, and its local accumulatedContent.
\* Three fields record what happened to it: the texts of the delta events
\* applied to its placeholder, joined; whether a complete event was applied
\* to it; and how the call ended.
Request(id, body, pc) ==
    [id |-> id, body |-> body, pc |-> pc, aborted |-> FALSE, acc |-> <<>>,
     deltas |-> <<>>, completed |-> FALSE, ended |-> "no"]

(***************************************************************************)
(* The persisted mirror of the message list, localStorage["chat-messages"]. *)
(* A text is a sequence of tokens.  JSON.stringify writes a message as     *)
(* "{", its id, its role and its content between two quotes, with a        *)
(* backslash before every quote and backslash of the content, and "}".     *)
(***************************************************************************)
Quote == "\""
Backslash == "\\"

Absent == [kind |-> "absent", text |-> <<>>]
NotRead == [kind |-> "notRead", text |-> <<>>]
Item(text) == [kind |-> "item", text |-> text]

\* the ids of messages, as they are printed
StoredIds == 1..99

\* a JSON string literal without its quotes
Escaped(content) ==
    Flatten([i \in 1..Len(content) |->
               IF content[i] \in {Quote, Backslash}
               THEN <<Backslash, content[i]>> ELSE <<content[i]>>])

\* JSON.stringify(messages)
Stringified(messages) ==
    <<"[">>
    \o Flatten([i \in 1..Len(messages) |->
                  <<"{", ToString(messages[i].id), messages[i].role, Quote>>
                     \o Escaped(messages[i].content) \o <<Quote, "}">>])
    \o <<"]">>

\* where the string literal whose characters start at i ends (0: nowhere)
RECURSIVE StringEnd(_, _)
StringEnd(text, i) ==
    IF i > Len(text) THEN 0
    ELSE IF text[i] = Quote THEN i
    ELSE IF text[i] = Backslash THEN StringEnd(text, i + 2)
    ELSE StringEnd(text, i + 1)

\* the characters of a string literal
RECURSIVE Unescaped(_)
Unescaped(chars) ==
    IF chars = <<>> THEN <<>>
    ELSE IF Head(chars) = Backslash /\ Len(chars) >= 2
         THEN <<chars[2]>> \o Unescaped(SubSeq(chars, 3, Len(chars)))
    ELSE <<Head(chars)>> \o Unescaped(Tail(chars))

\* the text is a run of messages
RECURSIVE ParsesItems(_)
ParsesItems(text) ==
    \/ text = <<>>
    \/ /\ Len(text) >= 6
       /\ text[1] = "{"
       /\ \E i \in StoredIds : ToString(i) = text[2]
       /\ text[3] \in Roles
       /\ text[4] = Quote
       /\ StringEnd(text, 5) # 0
       /\ StringEnd(text, 5) < Len(text)
       /\ text[StringEnd(text, 5) + 1] = "}"
       /\ ParsesItems(SubSeq(text, StringEnd(text, 5) + 2, Len(text)))

\* the messages of a run of messages
RECURSIVE ParsedItems(_)
ParsedItems(text) ==
    IF text = <<>> THEN <<>>
    ELSE <<ChatMessage(CHOOSE i \in StoredIds : ToString(i) = text[2], text[3],
                       Unescaped(SubSeq(text, 5, StringEnd(text, 5) - 1)))>>
         \o ParsedItems(SubSeq(text, StringEnd(text, 5) + 2, Len(text)))

\* JSON.parse(text) returns (it throws a SyntaxError otherwise)
ParsesStored(text) ==
    /\ Len(text) >= 2
    /\ text[1] = "["
    /\ text[Len(text)] = "]"
    /\ ParsesItems(SubSeq(text, 2, Len(text) - 1))

\* what JSON.parse(text) returns
ParsedStored(text) == ParsedItems(SubSeq(text, 2, Len(text) - 1))

\* localStorage.setItem("chat-messages", JSON.stringify(messages))
Stored(messages) == Item(Stringified(messages))

\* the load effect without its try / catch
loadUnguarded(store) ==
    IF store.kind = "absent"
    THEN [set |-> FALSE, messages |-> <<>>, threw |-> FALSE]
    ELSE IF ParsesStored(store.text)
         THEN [set |-> TRUE, messages |-> ParsedStored(store.text), threw |-> FALSE]
    ELSE [set |-> FALSE, messages |-> <<>>, threw |-> TRUE]

\* The load effect, `if (saved) { try { setMessages(JSON.parse(saved)) }
\* catch (e) { console.error(...) } }`: whether it sets the list, to what,
\* and whether an exception leaves it.
loadMessages(store) ==
    IF store.kind = "absent"
    THEN [set |-> FALSE, messages |-> <<>>, threw |-> FALSE]
    ELSE IF ParsesStored(store.text)
         THEN [set |-> TRUE, messages |-> ParsedStored(store.text), threw |-> FALSE]
    ELSE [set |-> FALSE, messages |-> <<>>, threw |-> FALSE]

\* the lists an earlier session can have stored
SnapshotLists ==
    { <<>>,
      <<ChatMessage(91, "user", <<"a">>), ChatMessage(92, "assistant", <<"x">>)>>,
      <<ChatMessage(91, "user", <<Quote, "}">>),
        ChatMessage(92, "assistant", <<Backslash>>)>> }

\* a stored text cut short
Malformed == Item(<<"[", "{", "91", "user", Quote, "a">>)

\* what a controller can find when it mounts
Snapshots == { Absent, Malformed } \cup { Stored(m) : m \in SnapshotLists }

\* the controller of a session that found nothing stored
Mounted ==
    /\ cStore = Stored(<<>>)
    /\ cBoot = Absent
    /\ cCrashed = FALSE

ChatInit ==
    /\ cMode \in {"direct", "channel"}
    /\ cMessages = <<>>
    /\ cIsStreaming = FALSE
    /\ cStreamingId = NoId
    /\ cAccumulated = <<>>
    /\ cAbort = NoId
    /\ cView = View(<<>>, FALSE, NoId, <<>>)
    /\ cRequests = <<>>
    /\ cCalls = 0
    /\ cReads = 0

\* the controller has mounted
IsMounted == cBoot # NotRead /\ ~cCrashed

\* a render whose save effect does not run
RenderUnsaved ==
    /\ IsMounted
    /\ cView # CurrentView \/ cStore = Absent
    /\ cView' = CurrentView
    /\ UNCHANGED <<cMode, cMessages, cIsStreaming, cStreamingId, cAccumulated,
                   cAbort, cRequests, cCalls, cReads, cStore, cBoot, cCrashed>>

\* React renders: the callbacks now close over the current state.  The save
\* effect runs after a render that was given a new messages array: every
\* setMessages makes one, and the only one that can leave the stored text
\* different from the text of an equal list is that of resetChat, which
\* removes the item.
Render ==
    /\ IsMounted
    /\ cView # CurrentView \/ cStore = Absent
    /\ cView' = CurrentView
    /\ cStore' = IF cMessages # cView.messages \/ cStore = Absent
                 THEN Stored(cMessages) ELSE cStore
    /\ UNCHANGED <<cMode, cMessages, cIsStreaming, cStreamingId, cAccumulated,
                   cAbort, cRequests, cCalls, cReads, cBoot, cCrashed>>

\* sendMessage(content), up to its first await
SendMessage(content) ==
    /\ cCalls < MaxCalls
    /\ cCalls' = cCalls + 1
    /\ IF SendGuard(content, cView.isStreaming)
       THEN UNCHANGED <<cMode, cMessages, cIsStreaming, cStreamingId,
                        cAccumulated, cAbort, cView, cRequests, cReads>>
       ELSE LET n == Len(cRequests) + 1
                userMessage == ChatMessage(UserId(n), "user", trim(content))
                assistantMessage == ChatMessage(AssistantId(n), "assistant", <<>>)
            IN  /\ cMessages' = cMessages \o <<userMessage, assistantMessage>>
                /\ cIsStreaming' = TRUE
                /\ cStreamingId' = AssistantId(n)
                /\ cAccumulated' = <<>>
                /\ cAbort' = IF cMode = "direct" THEN AssistantId(n) ELSE cAbort
                /\ cRequests' = Append(cRequests,
                      Request(AssistantId(n),
                              apiMessages(cView.messages, userMessage),
                              IF cMode = "direct" THEN "fetch" ELSE "mutate"))
                /\ UNCHANGED <<cMode, cView, cReads>>

\* the requests of the controller by position, and the one of a placeholder
RequestIds == 1..Len(cRequests)
RequestOf(id) == id \div 2

\* the finally block of the direct sendMessage
FinallyDirect ==
    /\ cAbort' = NoId
    /\ cIsStreaming' = FALSE
    /\ cStreamingId' = NoId

\* the text of the text blocks of a final message, joined; a final message
\* with no text block has none
HasTextBlocks(response) == response.text # <<>>

\* the content a complete event leaves in the placeholder
finalContent(response, accumulatedContent) ==
    IF HasTextBlocks(response) THEN response.text ELSE accumulatedContent

\* The body of the for loop for the events of one read, in order, from
\* event i on: the local accumulatedContent and the message list after the
\* queued updaters.  An error event is thrown, not folded.
RECURSIVE FoldEvents(_, _, _, _, _)
FoldEvents(events, i, id, acc, messages) ==
    IF i > Len(events) \/ events[i].type = "error"
    THEN [acc |-> acc, messages |-> messages]
    ELSE IF events[i].type = "delta"
         THEN FoldEvents(events, i + 1, id, acc \o events[i].content,
                         SetContent(messages, id, acc \o events[i].content))
    ELSE FoldEvents(events, i + 1, id, acc,
                    SetContent(messages, id, finalContent(events[i].response, acc)))

\* what a request records of the events applied to its placeholder
Noted(request, events) ==
    LET ds == PickFrom(events, 1, {i \in 1..Len(events) : events[i].type = "delta"})
    IN  [request EXCEPT
            !.deltas = @ \o Flatten([i \in 1..Len(ds) |-> ds[i].content]),
            !.completed = @ \/ (\E i \in 1..Len(events) : events[i].type = "complete")]

\* the message of the Error that leaves the read loop
ThrownMessage(result) ==
    IF result.status = "syntaxError" THEN "Unexpected token"
    ELSE result.events[Len(result.events)].error

\* `await fetch(...)` resolves with a response
FetchResolves(r, ok) ==
    /\ cMode = "direct"
    /\ cRequests[r].pc = "fetch" /\ ~cRequests[r].aborted
    /\ IF ok
       THEN /\ cRequests' = [cRequests EXCEPT ![r].pc = "read"]
            /\ UNCHANGED <<cMessages, cIsStreaming, cStreamingId, cAbort>>
       ELSE /\ cRequests' = [cRequests EXCEPT ![r].pc = "done", ![r].ended = "httpError"]
            /\ cMessages' = SetContent(cMessages, cRequests[r].id,
                                       ErrorAnnotation("HTTP error! status: 500"))
            /\ FinallyDirect
    /\ UNCHANGED <<cMode, cAccumulated, cView, cCalls, cReads>>

\* `await reader.read()` resolves with a chunk of the body
ReadChunk(r, chunk) ==
    /\ cMode = "direct"
    /\ cRequests[r].pc = "read" /\ ~cRequests[r].aborted
    /\ cReads < MaxReads
    /\ cReads' = cReads + 1
    /\ LET result == HandleRead(chunk, <<>>)
           folded == FoldEvents(result.events, 1, cRequests[r].id,
                                cRequests[r].acc, cMessages)
           noted == [Noted(cRequests[r], result.events) EXCEPT !.acc = folded.acc]
       IN  IF result.status = "reading"
           THEN /\ cRequests' = [cRequests EXCEPT ![r] = noted]
                /\ cMessages' = folded.messages
                /\ UNCHANGED <<cIsStreaming, cStreamingId, cAbort>>
           ELSE /\ cRequests' = [cRequests EXCEPT
                                    ![r] = [noted EXCEPT !.pc = "done",
                                                         !.ended = result.status]]
                /\ cMessages' = SetContent(folded.messages, cRequests[r].id,
                                           ErrorAnnotation(ThrownMessage(result)))
                /\ FinallyDirect
    /\ UNCHANGED <<cMode, cAccumulated, cView, cCalls>>

\* `await reader.read()` resolves with done
ReadEnd(r) ==
    /\ cMode = "direct"
    /\ cRequests[r].pc = "read" /\ ~cRequests[r].aborted
    /\ cRequests' = [cRequests EXCEPT ![r].pc = "done", ![r].ended = "bodyEnd"]
    /\ FinallyDirect
    /\ UNCHANGED <<cMode, cMessages, cAccumulated, cView, cCalls, cReads>>

\* The pending await of an aborted request rejects with an AbortError: the
\* fetch, caught by the outer catch, or the read, caught by the inner one.
AbortLands(r) ==
    /\ cMode = "direct"
    /\ cRequests[r].aborted /\ cRequests[r].pc \in {"fetch", "read"}
    /\ cRequests' = [cRequests EXCEPT
                        ![r].pc = "done",
                        ![r].ended = IF cRequests[r].pc = "read" THEN "abortedRead"
                                     ELSE "abortedFetch"]
    /\ cMessages' = IF cRequests[r].pc = "read"
                    THEN RemoveMessage(cMessages, cRequests[r].id)
                    ELSE cMessages
    /\ FinallyDirect
    /\ UNCHANGED <<cMode, cAccumulated, cView, cCalls, cReads>>

\* stopStreaming() of the direct controller
StopStreamingDirect ==
    /\ cMode = "direct"
    /\ cRequests' = [r \in RequestIds |->
                        IF cAbort # NoId /\ cRequests[r].id = cAbort
                        THEN [cRequests[r] EXCEPT !.aborted = TRUE]
                        ELSE cRequests[r]]
    /\ cAbort' = NoId
    /\ cIsStreaming' = FALSE
    /\ cStreamingId' = NoId
    /\ UNCHANGED <<cMode, cMessages, cAccumulated, cView, cCalls, cReads>>

\* stopStreaming() of the channel controller
StopChannel ==
    /\ cIsStreaming' = FALSE
    /\ cStreamingId' = NoId
    /\ cAccumulated' = <<>>

StopStreamingChannel ==
    /\ cMode = "channel"
    /\ StopChannel
    /\ UNCHANGED <<cMode, cMessages, cAbort, cView, cRequests, cCalls, cReads>>

\* `await sendMessages.mutateAsync(...)` settles
MutationSettles(r, ok) ==
    /\ cMode = "channel"
    /\ cRequests[r].pc = "mutate"
    /\ IF ok
       THEN /\ cRequests' = [cRequests EXCEPT ![r].pc = "done", ![r].ended = "acknowledged"]
            /\ UNCHANGED <<cMessages, cIsStreaming, cStreamingId>>
       ELSE /\ cRequests' = [cRequests EXCEPT ![r].pc = "done", ![r].ended = "mutationError"]
            /\ cMessages' = RemoveMessage(cMessages, cRequests[r].id)
            /\ cIsStreaming' = FALSE
            /\ cStreamingId' = NoId
    /\ UNCHANGED <<cMode, cAccumulated, cAbort, cView, cCalls, cReads>>

\* onData of the onMessageChunk subscription, which is enabled while the
\* rendered isStreaming is true; streamingMessageId and accumulatedContent
\* are the values of the last render.
OnData(data) ==
    /\ cMode = "channel"
    /\ cView.isStreaming
    /\ cReads < MaxReads
    /\ cReads' = cReads + 1
    /\ cRequests' = [cRequests EXCEPT ![RequestOf(cView.streamingMessageId)] =
                        Noted(@, <<data>>)]
    /\ CASE data.type = "delta" ->
              LET newAccumulated == cView.accumulatedContent \o data.content
              IN  /\ cAccumulated' = newAccumulated
                  /\ cMessages' = SetContent(cMessages, cView.streamingMessageId,
                                             newAccumulated)
                  /\ UNCHANGED <<cIsStreaming, cStreamingId>>
         [] data.type = "complete" ->
              /\ cMessages' = SetContent(cMessages, cView.streamingMessageId,
                                 finalContent(data.response, cView.accumulatedContent))
              /\ StopChannel
         [] OTHER ->
              /\ StopChannel
              /\ UNCHANGED cMessages
    /\ UNCHANGED <<cMode, cAbort, cView, cCalls>>

\* Mounting: the first render, with the empty list, then its effects: the
\* load effect and the save effect, which writes the list of that render.
Mount ==
    /\ cBoot = NotRead
    /\ cBoot' = cStore
    /\ cCrashed' = loadMessages(cStore).threw
    /\ cMessages' = IF loadMessages(cStore).set
                    THEN loadMessages(cStore).messages ELSE cMessages
    /\ cStore' = IF loadMessages(cStore).threw THEN cStore ELSE Stored(cView.messages)
    /\ UNCHANGED <<cMode, cIsStreaming, cStreamingId, cAccumulated, cAbort, cView,
                   cRequests, cCalls, cReads>>

\* resetChat(): `if (isStreaming) stopStreaming(); setMessages([]);
\* localStorage.removeItem("chat-messages")`; isStreaming is the value of
\* the last render.
ResetChat ==
    /\ IsMounted
    /\ IF cView.isStreaming /\ cMode = "direct"
       THEN /\ cRequests' = [r \in RequestIds |->
                               IF cAbort # NoId /\ cRequests[r].id = cAbort
                               THEN [cRequests[r] EXCEPT !.aborted = TRUE]
                               ELSE cRequests[r]]
            /\ cAbort' = NoId
            /\ cIsStreaming' = FALSE
            /\ cStreamingId' = NoId
            /\ UNCHANGED cAccumulated
       ELSE IF cView.isStreaming
       THEN /\ StopChannel
            /\ UNCHANGED <<cAbort, cRequests>>
       ELSE UNCHANGED <<cIsStreaming, cStreamingId, cAccumulated, cAbort, cRequests>>
    /\ cMessages' = <<>>
    /\ cStore' = Absent
    /\ UNCHANGED <<cMode, cView, cCalls, cReads, cBoot, cCrashed>>

\* the events the subscription can deliver
ChannelEvents == { ev \in WireEvents : IsStreamEvent(ev) }

\* a frame cut short, which JSON.parse rejects
Truncated == <<"{", "d", "x", "\n">>

\* the pieces of a body a read can return: whole frames, one or two
DeltaX == [type |-> "delta", content |-> <<"x">>]
DeltaYZ == [type |-> "delta", content |-> <<"y", "z">>]
CompleteWith(text) == CompleteEvent([text |-> text, valid |-> TRUE])
ChatChunks ==
    { Frame(DeltaX), Frame(CompleteWith(<<>>)),
      Frame(ErrorEvent("provider error")),
      Frame(UnknownEvent) \o Frame(DeltaX),
      Truncated \o Frame(DeltaX),
      Frame(CompleteWith(<<"x">>)) \o Frame(DeltaYZ) }

(***************************************************************************)
(* The channel registry of the channel relay: one EventEmitter for every   *)
(* channelId in the channelEmitters map, the sendMessages runs that        *)
(* publish on them and the onMessageChunk subscriptions that listen.       *)
(* An emitter is known by its number; gEmitted holds, for every emitter    *)
(* made so far, the "chunk" events emitted on it.  The listeners of an     *)
(* emitter are the subscriptions attached to it.                           *)
(***************************************************************************)
ChannelIds == {"c1"}
NoEmitter == 0

\* the StreamEvents a run publishes
RunDelta == [type |-> "delta", content |-> <<"x">>]
RunComplete(n) == CompleteEvent(FinalMessage([i \in 1..n |-> [type |-> "text_delta", text |-> <<"x">>]], TRUE))

\* one sendMessages call: its channelId, the emitter it took from the map,
\* where it is, and the events it has published
Run(channelId, emitter, pc) ==
    [channelId |-> channelId, emitter |-> emitter, pc |-> pc, published |-> <<>>]

\* one onMessageChunk subscription: its channelId, the emitter it listens
\* on, how many events that emitter had emitted when it attached, the events
\* its iterator has been handed, and its status: "attached", "detached"
\* (its listeners were removed), "errored" (its iterator threw), "closed"
Subscription(channelId, emitter, from) ==
    [channelId |-> channelId, emitter |-> emitter, from |-> from,
     received |-> <<>>, status |-> "attached"]

\* getChannelEmitter(channelId): the map and the emitters afterwards
getChannelEmitter(registry, emitted, channelId) ==
    IF registry[channelId] = NoEmitter
    THEN [registry |-> [registry EXCEPT ![channelId] = Len(emitted) + 1],
          emitted |-> Append(emitted, <<>>)]
    ELSE [registry |-> registry, emitted |-> emitted]

\* the first attached subscription only: an emitter that hands an event to
\* one of its listeners
FirstListener(subs, emitter) ==
    { s \in 1..Len(subs) :
        /\ subs[s].emitter = emitter /\ subs[s].status = "attached"
        /\ \A t \in 1..(s - 1) :
              ~(subs[t].emitter = emitter /\ subs[t].status = "attached") }

\* the subscriptions whose listeners are on the emitter
Listeners(subs, emitter) ==
    { s \in 1..Len(subs) : subs[s].emitter = emitter /\ subs[s].status = "attached" }

\* emitter.emit("chunk", data): every listener's iterator queues the event
emit(subs, emitter, data) ==
    [s \in 1..Len(subs) |->
        IF s \in Listeners(subs, emitter)
        THEN [subs[s] EXCEPT !.received = Append(@, data)]
        ELSE subs[s]]

\* emitter.emit("error", error) with a listener: every iterator throws
emitError(subs, emitter) ==
    [s \in 1..Len(subs) |->
        IF subs[s].emitter = emitter /\ subs[s].status = "attached"
        THEN [subs[s] EXCEPT !.status = "errored"]
        ELSE subs[s]]

\* emitter.removeAllListeners()
removeAllListeners(subs, emitter) ==
    [s \in 1..Len(subs) |->
        IF subs[s].emitter = emitter /\ subs[s].status = "attached"
        THEN [subs[s] EXCEPT !.status = "detached"]
        ELSE subs[s]]

\* cleanupChannel(channelId): the map and the subscriptions afterwards
cleanupChannel(registry, subs, channelId) ==
    IF registry[channelId] # NoEmitter
    THEN [registry |-> [registry EXCEPT ![channelId] = NoEmitter],
          subs |-> removeAllListeners(subs, registry[channelId])]
    ELSE [registry |-> registry, subs |-> subs]

\* The catch block of sendMessages: `channelEmitter.emit("error", error);
\* cleanupChannel(channelId); throw error`.  emit("error") on an emitter
\* without an "error" listener throws the error itself, and the statements
\* after it do not run.
catchRun(registry, subs, channelId, emitter) ==
    IF Listeners(subs, emitter) = {}
    THEN [registry |-> registry, subs |-> subs]
    ELSE cleanupChannel(registry, emitError(subs, emitter), channelId)

RegInit ==
    /\ channelEmitters = [c \in ChannelIds |-> NoEmitter]
    /\ gEmitted = <<>>
    /\ gRuns = <<>>
    /\ gSubs = <<>>
    /\ gTimers = {}

RunIds == 1..Len(gRuns)
SubIds == 1..Len(gSubs)

\* sendMessages({messages, channelId}) up to its first await; `valid` says
\* whether the messages pass validateConversation
StartRun(channelId, valid) ==
    /\ Len(gRuns) + Len(gSubs) < MaxRequests
    /\ LET got == getChannelEmitter(channelEmitters, gEmitted, channelId)
           emitter == got.registry[channelId]
       IN  /\ gEmitted' = got.emitted
           /\ IF valid
              THEN /\ gRuns' = Append(gRuns, Run(channelId, emitter, "streaming"))
                   /\ channelEmitters' = got.registry
                   /\ UNCHANGED gSubs
              ELSE /\ gRuns' = Append(gRuns, Run(channelId, emitter, "failed"))
                   /\ channelEmitters' =
                        catchRun(got.registry, gSubs, channelId, emitter).registry
                   /\ gSubs' = catchRun(got.registry, gSubs, channelId, emitter).subs
    /\ UNCHANGED gTimers

\* enqueue({type: "delta", ...}) for a text delta of the provider
PublishDelta(r) ==
    /\ gRuns[r].pc = "streaming"
    /\ Len(gRuns[r].published) < MaxDeltas
    /\ gRuns' = [gRuns EXCEPT ![r].published = Append(@, RunDelta)]
    /\ gEmitted' = [gEmitted EXCEPT ![gRuns[r].emitter] = Append(@, RunDelta)]
    /\ gSubs' = emit(gSubs, gRuns[r].emitter, RunDelta)
    /\ UNCHANGED <<channelEmitters, gTimers>>

\* stream.finalMessage() resolves: enqueue({type: "complete", ...}),
\* setTimeout(() => cleanupChannel(channelId), 60000), return {channelId}
CompleteRun(r) ==
    /\ gRuns[r].pc = "streaming"
    /\ LET data == RunComplete(Len(gRuns[r].published))
       IN  /\ gRuns' = [gRuns EXCEPT ![r].published = Append(@, data), ![r].pc = "done"]
           /\ gEmitted' = [gEmitted EXCEPT ![gRuns[r].emitter] = Append(@, data)]
           /\ gSubs' = emit(gSubs, gRuns[r].emitter, data)
    /\ gTimers' = gTimers \cup {r}
    /\ UNCHANGED channelEmitters

\* the provider stream throws
RunFails(r) ==
    /\ gRuns[r].pc = "streaming"
    /\ gRuns' = [gRuns EXCEPT ![r].pc = "failed"]
    /\ channelEmitters' =
          catchRun(channelEmitters, gSubs, gRuns[r].channelId, gRuns[r].emitter).registry
    /\ gSubs' = catchRun(channelEmitters, gSubs, gRuns[r].channelId, gRuns[r].emitter).subs
    /\ UNCHANGED <<gEmitted, gTimers>>

\* the cleanup timer of a completed run fires
CleanupFires(r) ==
    /\ r \in gTimers
    /\ gTimers' = gTimers \ {r}
    /\ channelEmitters' = cleanupChannel(channelEmitters, gSubs, gRuns[r].channelId).registry
    /\ gSubs' = cleanupChannel(channelEmitters, gSubs, gRuns[r].channelId).subs
    /\ UNCHANGED <<gEmitted, gRuns>>

\* onMessageChunk({channelId}) starts: getChannelEmitter and the two
\* toIterable calls, which attach the listeners
Subscribe(channelId) ==
    /\ Len(gRuns) + Len(gSubs) < MaxRequests
    /\ LET got == getChannelEmitter(channelEmitters, gEmitted, channelId)
           emitter == got.registry[channelId]
       IN  /\ channelEmitters' = got.registry
           /\ gEmitted' = got.emitted
           /\ gSubs' = Append(gSubs, Subscription(channelId, emitter,
                                                  Len(got.emitted[emitter])))
    /\ UNCHANGED <<gRuns, gTimers>>

\* the client ends the subscription: opts.signal aborts and the iterators
\* take their listeners off
Unsubscribe(s) ==
    /\ gSubs[s].status \in {"attached", "detached"}
    /\ gSubs' = [gSubs EXCEPT ![s].status = "closed"]
    /\ UNCHANGED <<channelEmitters, gEmitted, gRuns, gTimers>>

(***************************************************************************)
(* The useStreamingRequest hook.  Its state is set with updaters and its   *)
(* refs are read directly, so the callbacks act on the current values; the *)
(* one value read from a render is the state.isStreaming of the unmount    *)
(* effect, kept in qRendered.  onDelta, onComplete and onError are taken   *)
(* to be the same functions in every render; qCalls lists their calls.     *)
(* Times and byte counts are left out.                                     *)
(***************************************************************************)
NoError == "null"
NoReason == "undefined"
RequestAborted == "Request aborted"
TimedOut == "Request timed out after 60000ms"
Unmounted == "Component unmounted"
NoTimer == 0

\* abortControllerRef.current: null, or a controller with its signal
NoController == [made |-> FALSE, aborted |-> FALSE, reason |-> NoReason]
Controller(aborted, reason) == [made |-> TRUE, aborted |-> aborted, reason |-> reason]

\* the `timeout` option
Timeouts == {0, 60000}

\* the chunks handleChunk can be given
HookChunks ==
    { [type |-> "delta", content |-> <<"x">>],
      [type |-> "delta", content |-> <<>>],
      [type |-> "complete"],
      [type |-> "error", error |-> "provider error"] }

\* what abort and handleChunk act on
Hook(isStreaming, error, chunksReceived, controller, timeoutId, timers, calls) ==
    [isStreaming |-> isStreaming, error |-> error, chunksReceived |-> chunksReceived,
     controller |-> controller, timeoutId |-> timeoutId, timers |-> timers,
     calls |-> calls]

CurrentHook == Hook(qIsStreaming, qError, qChunksReceived, qController, qTimeoutId,
                    qTimers, qCalls)

\* clearTimeout(timeoutIdRef.current); timeoutIdRef.current = null
clearTimer(hook) ==
    [hook EXCEPT !.timers = IF hook.timeoutId # NoTimer
                            THEN hook.timers \ {hook.timeoutId} ELSE hook.timers,
                 !.timeoutId = NoTimer]

\* abort(reason?)
abort(hook, reason) ==
    LET cleared == clearTimer(hook)
    IN  [cleared EXCEPT
           !.controller = IF hook.controller.made /\ ~hook.controller.aborted
                          THEN Controller(TRUE, reason) ELSE hook.controller,
           !.isStreaming = FALSE,
           !.error = IF reason # NoReason THEN reason ELSE RequestAborted,
           !.calls = IF reason # NoReason
                     THEN Append(hook.calls, <<"onError", reason>>) ELSE hook.calls]

\* handleChunk(chunk)
handleChunk(hook, chunk) ==
    LET counted == [hook EXCEPT !.chunksReceived = @ + 1]
    IN  CASE chunk.type = "delta" ->
               IF chunk.content # <<>>
               THEN [counted EXCEPT !.calls = Append(@, <<"onDelta", chunk.content>>)]
               ELSE counted
          [] chunk.type = "complete" ->
               [clearTimer(counted) EXCEPT
                   !.isStreaming = FALSE,
                   !.calls = Append(@, <<"onComplete", "response">>)]
          [] OTHER -> abort(counted, chunk.error)

\* the hook becomes the given one
Becomes(hook) ==
    /\ qIsStreaming' = hook.isStreaming
    /\ qError' = hook.error
    /\ qChunksReceived' = hook.chunksReceived
    /\ qController' = hook.controller
    /\ qTimeoutId' = hook.timeoutId
    /\ qTimers' = hook.timers
    /\ qCalls' = hook.calls

ReqInit ==
    /\ qTimeout \in Timeouts
    /\ qIsStreaming = FALSE
    /\ qError = NoError
    /\ qChunksReceived = 0
    /\ qController = NoController
    /\ qTimeoutId = NoTimer
    /\ qTimers = {}
    /\ qCalls = <<>>
    /\ qRendered = FALSE
    /\ qStarts = 0
    /\ qHandled = 0

\* start()
Start ==
    /\ qStarts < MaxStarts
    /\ qStarts' = qStarts + 1
    /\ qController' = Controller(FALSE, NoReason)
    /\ IF qTimeout > 0
       THEN /\ qTimeoutId' = qStarts + 1
            /\ qTimers' = qTimers \cup {qStarts + 1}
       ELSE UNCHANGED <<qTimeoutId, qTimers>>
    /\ qIsStreaming' = TRUE
    /\ qError' = NoError
    /\ qChunksReceived' = 0
    /\ UNCHANGED <<qTimeout, qCalls, qRendered, qHandled>>

\* the user cancels: abort()
Abort ==
    /\ Becomes(abort(CurrentHook, NoReason))
    /\ UNCHANGED <<qTimeout, qRendered, qStarts, qHandled>>

\* a timer set by start() fires: abort(new Error("Request timed out ..."))
TimerFires(id) ==
    /\ id \in qTimers
    /\ Becomes(abort([CurrentHook EXCEPT !.timers = @ \ {id}], TimedOut))
    /\ UNCHANGED <<qTimeout, qRendered, qStarts, qHandled>>

\* handleChunk(chunk)
HandleChunk(chunk) ==
    /\ qHandled < MaxHandled
    /\ qHandled' = qHandled + 1
    /\ Becomes(handleChunk(CurrentHook, chunk))
    /\ UNCHANGED <<qTimeout, qRendered, qStarts>>

\* React renders with a changed state.isStreaming: the cleanup of the
\* effect of the last render runs, with the state.isStreaming of that
\* render, `if (state.isStreaming) abort(new Error("Component unmounted"))`
RenderHook ==
    /\ qRendered # qIsStreaming
    /\ qRendered' = qIsStreaming
    /\ IF qRendered
       THEN Becomes(abort(CurrentHook, Unmounted))
       ELSE UNCHANGED <<qIsStreaming, qError, qChunksReceived, qController,
                        qTimeoutId, qTimers, qCalls>>
    /\ UNCHANGED <<qTimeout, qStarts, qHandled>>

(***************************************************************************)
(* The useRequestQueue hook.  queue and activeRequests are React state:    *)
(* uQueue and uActive hold them after every queued update, uView holds     *)
(* what the last render handed to the callbacks.  processQueue is a        *)
(* callback of one render and reads `queue` and `activeRequests.size` from *)
(* that render for as long as it runs; its updaters act on the state.  The *)
(* refs are read directly.  All calls fall within one minute, so no        *)
(* timestamp leaves the rate-limit window.  Wait times and metrics are     *)
(* left out.                                                               *)
(***************************************************************************)
maxConcurrent == 3
maxQueueSize == 100
Priorities == {0, 1}

QueuedRequest(id, priority) == [id |-> id, priority |-> priority]

\* the values of one render that processQueue and enqueue close over
QueueView(queue, active) == [queue |-> queue, activeSize |-> Cardinality(active)]

NoRun == [pc |-> "idle"]
Awaiting(view, request) == [pc |-> "awaiting", view |-> view, request |-> request]

\* priorityComparator(a, b) < 0: higher priority first, then older first
\* (ids are handed out in the order of the timestamps)
Before(a, b) ==
    IF a.priority # b.priority THEN a.priority > b.priority ELSE a.id < b.id

\* [...prev, queuedRequest].sort(priorityComparator), prev being sorted
SortedWith(prev, request) ==
    LET k == Cardinality({ i \in 1..Len(prev) : Before(prev[i], request) })
    IN  SubSeq(prev, 1, k) \o <<request>> \o SubSeq(prev, k + 1, Len(prev))

\* canMakeRequest()
canMakeRequest(stamps) == stamps < RequestsPerMinute

\* the execute() calls, with one more of request id
ExecutedOnce(executed, id) == [executed EXCEPT ![id] = @ + 1]

QueueInit ==
    /\ uQueue = <<>>
    /\ uActive = {}
    /\ uView = QueueView(<<>>, {})
    /\ uIsProcessing = FALSE
    /\ uStamps = 0
    /\ uRun = NoRun
    /\ uTimers = {}
    /\ uExecuted = [id \in 1..MaxEnqueued |-> 0]
    /\ uCallbacks = <<>>
    /\ uEnqueued = 0

\* processQueue from the head of its while loop to its next await or to its
\* end, for the callback of the render `view`, with the activeRequests
\* state `active` and the pending timers `timers`
ProcessLoop(view, active, timers) ==
    IF Len(view.queue) > 0 /\ view.activeSize < maxConcurrent /\ canMakeRequest(uStamps)
    THEN LET request == view.queue[1]
         IN  /\ uQueue' = SubSeq(uQueue, 2, Len(uQueue))
             /\ uActive' = active \cup {request.id}
             /\ uStamps' = uStamps + 1
             /\ uExecuted' = ExecutedOnce(uExecuted, request.id)
             /\ uRun' = Awaiting(view, request)
             /\ uIsProcessing' = TRUE
             /\ uTimers' = timers
    ELSE /\ uIsProcessing' = FALSE
         /\ uRun' = NoRun
         /\ uTimers' = IF Len(view.queue) > 0 /\ view.activeSize < maxConcurrent
                       THEN timers \cup {view} ELSE timers
         /\ uActive' = active
         /\ UNCHANGED <<uQueue, uStamps, uExecuted>>

\* processQueue() of the render `view`
processQueue(view, timers) ==
    IF uIsProcessing
    THEN /\ uTimers' = timers
         /\ UNCHANGED <<uQueue, uActive, uIsProcessing, uStamps, uRun, uExecuted>>
    ELSE ProcessLoop(view, uActive, timers)

\* enqueue({priority, execute, onComplete, onError})
Enqueue(priority) ==
    /\ uEnqueued < MaxEnqueued
    /\ uEnqueued' = uEnqueued + 1
    /\ IF Len(uView.queue) >= maxQueueSize
       THEN /\ uCallbacks' = Append(uCallbacks, [id |-> uEnqueued + 1, call |-> "onError"])
            /\ UNCHANGED uQueue
       ELSE /\ uQueue' = SortedWith(uQueue, QueuedRequest(uEnqueued + 1, priority))
            /\ UNCHANGED uCallbacks
    /\ UNCHANGED <<uActive, uView, uIsProcessing, uStamps, uRun, uTimers, uExecuted>>

\* React renders with a changed queue or activeRequests.size: processQueue
\* is a new callback and the effect calls it
RenderQueue ==
    /\ uView # QueueView(uQueue, uActive)
    /\ uView' = QueueView(uQueue, uActive)
    /\ processQueue(QueueView(uQueue, uActive), uTimers)
    /\ UNCHANGED <<uCallbacks, uEnqueued>>

\* `await request.execute()` settles: onComplete or onError, the finally
\* that takes the request out of activeRequests, and the loop again
ExecuteSettles(ok) ==
    /\ uRun.pc = "awaiting"
    /\ uCallbacks' = Append(uCallbacks,
                            [id |-> uRun.request.id,
                             call |-> IF ok THEN "onComplete" ELSE "onError"])
    /\ ProcessLoop(uRun.view, uActive \ {uRun.request.id}, uTimers)
    /\ UNCHANGED <<uView, uEnqueued>>

\* a setTimeout(() => processQueue(), 100) fires
RetryTimerFires(view) ==
    /\ view \in uTimers
    /\ processQueue(view, uTimers \ {view})
    /\ UNCHANGED <<uView, uCallbacks, uEnqueued>>

(***************************************************************************)
(* The fetch option of the httpBatchLink: fetch with retries.              *)
(***************************************************************************)
maxRetries == 3

Unsettled == [kind |-> "none"]
Response(status) == [kind |-> "response", status |-> status, ok |-> status \in 200..299]
Thrown(message) == [kind |-> "error", message |-> message]

\* how one fetch(url, options) can settle: it resolves with a response or
\* rejects with a network error
Statuses == {200, 404, 500, 503}
Outcomes == { Response(st) : st \in Statuses } \cup { Thrown("network") }

\* a response is answered with a retry only when it is not ok
retryOnNotOk(response) == ~response.ok

\* `!response.ok && response.status >= 500`
isServerError(response) == ~response.ok /\ response.status >= 500

FetchInit ==
    /\ fPc = "fetching"
    /\ fI = 0
    /\ fCalls = 1
    /\ fAttempts = <<>>
    /\ fLastError = Unsettled
    /\ fResult = Unsettled

\* `await fetch(url, options)` settles with `outcome`: the rest of the try,
\* the catch, and the loop up to the next await, the return or the throw
FetchSettles(outcome) ==
    /\ fPc = "fetching"
    /\ fAttempts' = Append(fAttempts, outcome)
    /\ IF outcome.kind = "response" /\ ~isServerError(outcome)
       THEN /\ fPc' = "returned"
            /\ fResult' = outcome
            /\ UNCHANGED fLastError
       ELSE LET error == IF outcome.kind = "response" THEN Thrown("server") ELSE outcome
            IN  /\ fLastError' = error
                /\ IF fI < maxRetries
                   THEN fPc' = "waiting" /\ UNCHANGED fResult
                   ELSE fPc' = "thrown" /\ fResult' = error
    /\ UNCHANGED <<fI, fCalls>>

\* the delay before the retry has passed: i++ and the next fetch(url, options)
DelayElapses ==
    /\ fPc = "waiting"
    /\ fI' = fI + 1
    /\ fCalls' = fCalls + 1
    /\ fPc' = "fetching"
    /\ UNCHANGED <<fAttempts, fLastError, fResult>>

(***************************************************************************)
(* Resting values of the parts a specification does not exercise.          *)
(***************************************************************************)
RelayIdle ==
    /\ rHandler = "none" /\ rBody = [schemaOk |-> FALSE, messages |-> <<>>]
    /\ rEnv = [apiKey |-> TRUE]
    /\ rPc = "off" /\ rCalls = 0 /\ rArgs = <<>> /\ rChunks = <<>>
    /\ rFinal = <<>> /\ rOut = <<>> /\ rClosed = FALSE
    /\ rResponse = Pending /\ rEmitterErrors = 0 /\ rFailure = "none"

DecIdle ==
    /\ dWire = <<>> /\ dPos = 0 /\ dReads = 0 /\ dEvents = <<>> /\ dStatus = "off"

ChatIdle ==
    /\ cMode = "off" /\ cMessages = <<>> /\ cIsStreaming = FALSE
    /\ cStreamingId = NoId /\ cAccumulated = <<>> /\ cAbort = NoId
    /\ cView = View(<<>>, FALSE, NoId, <<>>)
    /\ cRequests = <<>> /\ cCalls = 0 /\ cReads = 0
    /\ cStore = Absent /\ cBoot = NotRead /\ cCrashed = FALSE

RegIdle == RegInit

QueueIdle ==
    /\ uQueue = <<>> /\ uActive = {} /\ uView = QueueView(<<>>, {})
    /\ uIsProcessing = FALSE /\ uStamps = 0 /\ uRun = NoRun /\ uTimers = {}
    /\ uExecuted = <<>> /\ uCallbacks = <<>> /\ uEnqueued = 0

FetchIdle ==
    /\ fPc = "off" /\ fI = 0 /\ fCalls = 0 /\ fAttempts = <<>>
    /\ fLastError = Unsettled /\ fResult = Unsettled

ReqIdle ==
    /\ qTimeout = 0 /\ qIsStreaming = FALSE /\ qError = NoError
    /\ qChunksReceived = 0 /\ qController = NoController /\ qTimeoutId = NoTimer
    /\ qTimers = {} /\ qCalls = <<>> /\ qRendered = FALSE /\ qStarts = 0
    /\ qHandled = 0

(***************************************************************************)
(* SpecSanitize: the sanitize / validate pipeline on every request.        *)
(***************************************************************************)
InitSanitize == SanInit /\ RelayIdle /\ DecIdle /\ ChatIdle /\ RegIdle /\ ReqIdle /\ QueueIdle /\ FetchIdle

NextSanitize ==
    \/ Sanitize /\ UNCHANGED notSanitize
    \/ Validate /\ UNCHANGED notSanitize
    \/ Resanitize /\ UNCHANGED notSanitize

SpecSanitize == InitSanitize /\ [][NextSanitize]_vars

(***************************************************************************)
(* The sanitization policy, stated on its own: strip the blanks of both    *)
(* ends, drop what is left empty, and replace every maximal run of one     *)
(* role by its last message.                                               *)
(***************************************************************************)
RECURSIVE DropLeading(_)
DropLeading(s) ==
    IF s # <<>> /\ Head(s) \in Whitespace THEN DropLeading(Tail(s)) ELSE s

RECURSIVE DropTrailing(_)
DropTrailing(s) ==
    IF s # <<>> /\ s[Len(s)] \in Whitespace
    THEN DropTrailing(SubSeq(s, 1, Len(s) - 1)) ELSE s

Stripped(s) == DropTrailing(DropLeading(s))

\* The messages lo..hi of ms that do not strip to nothing, stripped.
RECURSIVE NonEmptyStrippedIn(_, _, _)
NonEmptyStrippedIn(ms, lo, hi) ==
    IF lo > hi THEN <<>>
    ELSE IF lo = hi
         THEN IF Stripped(ms[lo].content) = <<>> THEN <<>>
              ELSE <<[role |-> ms[lo].role, content |-> Stripped(ms[lo].content)]>>
    ELSE NonEmptyStrippedIn(ms, lo, (lo + hi) \div 2)
         \o NonEmptyStrippedIn(ms, (lo + hi) \div 2 + 1, hi)

NonEmptyStripped(ms) == NonEmptyStrippedIn(ms, 1, Len(ms))

\* Two collapsed lists side by side: when the run that ends A continues at
\* the head of B, its last message is in B.
JoinRuns(A, B) ==
    IF A # <<>> /\ B # <<>> /\ A[Len(A)].role = B[1].role
    THEN SubSeq(A, 1, Len(A) - 1) \o B
    ELSE A \o B

\* The messages lo..hi of ms with every maximal run of one role replaced by
\* the last message of the run.
RECURSIVE CollapseRunsIn(_, _, _)
CollapseRunsIn(ms, lo, hi) ==
    IF lo > hi THEN <<>>
    ELSE IF lo = hi THEN <<ms[lo]>>
    ELSE JoinRuns(CollapseRunsIn(ms, lo, (lo + hi) \div 2),
                  CollapseRunsIn(ms, (lo + hi) \div 2 + 1, hi))

CollapseRuns(ms) == CollapseRunsIn(ms, 1, Len(ms))

\* C1: sanitizeMessages returns exactly the messages whose trimmed content is
\* non-empty, trimmed, in order, with every maximal run of one role replaced
\* by the last message of the run; [{user,"a"},{user,"b"}] gives [{user,"b"}].
C1_SanitizePolicy ==
    sPc # "recv" =>
        /\ sSanitized = CollapseRuns(NonEmptyStripped(sInput))
        /\ sInput = <<[role |-> "user", content |-> <<"a">>],
                      [role |-> "user", content |-> <<"b">>]>>
             => sSanitized = <<[role |-> "user", content |-> <<"b">>]>>

\* a run of three messages of one role, with a blank message inside it, has
\* been collapsed to its last message
C1_Witness ==
    /\ sPc = "sanitized"
    /\ Len(sInput) = 3
    /\ \A i \in 1..3 : sInput[i].role = "user"
    /\ sInput[1].content = <<"a">> /\ sInput[2].content = <<" ">>
    /\ sInput[3].content = <<" ", "a", "\n">>
    /\ sSanitized = <<[role |-> "user", content |-> <<"a">>]>>

\* C2: sanitizeMessages is idempotent: sanitizing a sanitized list changes
\* nothing.
C2_Idempotent == sPc = "resanitized" => sTwice = sSanitized

\* the second pass ran on a list the first pass had shortened
C2_Witness ==
    /\ sPc = "resanitized"
    /\ Len(sSanitized) = 2
    /\ Len(sInput) = 3
    /\ sTwice = sSanitized

\* The four documented rejections of a conversation.
Rejected(ms) ==
    \/ Len(ms) = 0
    \/ ms[Len(ms)].role # "user"
    \/ \E i \in 1..Len(ms) : Len(ms[i].content) > 10000
    \/ Len(ms) > 100

\* C3: validateConversation on a sanitized list throws exactly when the list
\* is empty, does not end with a user message, holds a content of more than
\* 10,000 characters or has more than 100 messages, and returns the list
\* unchanged otherwise; a list that is only too long (101 messages) is
\* rejected as "Conversation too long".
C3_ValidateExact ==
    sPc = "validated" =>
        /\ ~sResult.ok <=> Rejected(sSanitized)
        /\ sResult.ok => sResult.value = sSanitized
        /\ ( /\ Len(sSanitized) > 100
             /\ sSanitized[Len(sSanitized)].role = "user"
             /\ \A i \in 1..Len(sSanitized) : Len(sSanitized[i].content) <= 10000 )
           => sResult.error = "Conversation too long (max 100 messages)"

\* 100 messages ending with a user turn of exactly 10,000 characters pass
C3_Witness ==
    /\ sPc = "validated"
    /\ Len(sSanitized) = 100
    /\ Len(sSanitized[100].content) = 10000
    /\ sResult.ok


(***************************************************************************)
(* SpecRelay: one request served by one of the relay handlers.             *)
(***************************************************************************)
InitRelay == RelayInit /\ SanIdle /\ DecIdle /\ ChatIdle /\ RegIdle /\ ReqIdle /\ QueueIdle /\ FetchIdle

NextRelay ==
    \/ HandleChatRequest /\ UNCHANGED notRelay
    \/ PostApiChat /\ UNCHANGED notRelay
    \/ SendMessagesChannel /\ UNCHANGED notRelay
    \/ SendMessagesGlobal /\ UNCHANGED notRelay
    \/ (\E chunk \in ProviderChunks : ProviderChunk(chunk)) /\ UNCHANGED notRelay
    \/ ProviderEnd /\ UNCHANGED notRelay
    \/ (\E valid \in BOOLEAN : FinalMessageReceived(valid)) /\ UNCHANGED notRelay
    \/ ProviderThrow /\ UNCHANGED notRelay

SpecRelay == InitRelay /\ [][NextRelay]_vars


IsTerminal(ev) == ev.type \in {"complete", "error"}
IsDelta(ev) == ev.type = "delta"
IsError(ev) == ev.type = "error"

\* the request's messages survive sanitization and conversation validation
PassesValidation ==
    rBody.schemaOk /\ validateConversation(sanitizeMessages(rBody.messages)).ok

\* C4: in every relay handler the provider call is opened only after the
\* request's messages were sanitized and validated successfully, and with the
\* validated messages; a request that fails either never reaches the provider.
C4_ProviderOnlyAfterValidation ==
    rCalls > 0 =>
        /\ PassesValidation
        /\ rArgs = validateConversation(sanitizeMessages(rBody.messages)).value

\* C5: a schema-valid request whose conversation is invalid is answered with
\* a structured 400 validation error, with no stream event and no provider
\* call.
C5_InvalidConversationIs400 ==
    (rPc = "done" /\ rBody.schemaOk /\ ~PassesValidation) =>
        /\ rResponse.status = 400
        /\ rResponse.kind = "json"
        /\ rOut = <<>>
        /\ rCalls = 0

\* C6: a request's stream carries at most one terminal event (complete or
\* error), and no event of any type follows it.
C6_TerminalIsLast ==
    \A i \in 1..Len(rOut) : IsTerminal(rOut[i]) => i = Len(rOut)

\* a direct stream that carried deltas, then an error caused by a final
\* message that failed to encode, and was closed
C6_Witness ==
    /\ rPc = "done" /\ rClosed
    /\ rFailure = "encoding"
    /\ Len(rOut) = 3
    /\ IsDelta(rOut[1]) /\ IsDelta(rOut[2]) /\ IsError(rOut[3])

\* C7: when the stream of a request that passed validation is closed, it
\* carries exactly one terminal event, as its last event: complete with the
\* provider's final message when the provider stream and the encoding
\* succeeded, and error otherwise; it is never closed with neither.
C7_EndsWithOneTerminal ==
    (rClosed /\ PassesValidation) =>
        /\ Len(SelectSeq(rOut, IsTerminal)) = 1
        /\ IsTerminal(rOut[Len(rOut)])
        /\ rFailure = "none" => rOut[Len(rOut)] = CompleteEvent(rFinal[1])
        /\ rFailure # "none" => IsError(rOut[Len(rOut)])

\* C8: the delta events emitted so far are the provider's text_delta chunks
\* so far, one for one and in order, each carrying that chunk's text alone;
\* they all precede the complete event, and their concatenation is the text
\* of the final message it carries.
C8_DeltasMirrorProvider ==
    LET deltas == SelectSeq(rOut, IsDelta)
        texts == SelectSeq(rChunks, IsTextDelta)
    IN  /\ Len(deltas) = Len(texts)
        /\ \A i \in 1..Len(deltas) : deltas[i].content = texts[i].text
        /\ \A i \in 1..Len(rOut) :
              rOut[i].type = "complete" =>
                 /\ \A j \in 1..Len(rOut) : IsDelta(rOut[j]) => j < i
                 /\ Flatten([k \in 1..Len(deltas) |-> deltas[k].content])
                      = rOut[i].response.text

\* two different text deltas with another provider event between them were
\* relayed, and the complete event followed
C8_Witness ==
    /\ rPc = "done"
    /\ Len(rChunks) = 3
    /\ IsTextDelta(rChunks[1]) /\ ~IsTextDelta(rChunks[2]) /\ IsTextDelta(rChunks[3])
    /\ rChunks[1].text # rChunks[3].text
    /\ Len(rOut) = 3
    /\ rOut[3].type = "complete"

\* C9: a provider failure is turned into a single error StreamEvent on the
\* request's stream and never leaves the handler as a raw exception, in the
\* direct handlers and in the channel-mode sendMessages alike.
C9_ProviderFailureIsErrorEvent ==
    (rPc = "done" /\ rFailure = "provider") =>
        /\ Len(SelectSeq(rOut, IsError)) = 1
        /\ IsError(rOut[Len(rOut)])
        /\ rResponse.kind # "exception"

\* C22: the sendMessages mutation of the channel relay has returned its
\* acknowledgement before the first StreamEvent of the request is published,
\* and so before the provider stream has finished.
C22_AcknowledgedBeforeFirstEvent ==
    (rHandler = "sendMessagesChannel" /\ rOut # <<>>) => rResponse = Acknowledged

(***************************************************************************)
(* SpecDecoder: the read loop on a response body delivered in any pieces.  *)
(***************************************************************************)
InitDecoder == DecInit /\ SanIdle /\ RelayIdle /\ ChatIdle /\ RegIdle /\ ReqIdle /\ QueueIdle /\ FetchIdle

NextDecoder ==
    \/ (\E k \in 1..Len(dWire) : Read(k)) /\ UNCHANGED notDecoder
    \/ ReadDone /\ UNCHANGED notDecoder

SpecDecoder == InitDecoder /\ [][NextDecoder]_vars

\* how the loop ends when the whole body arrives in one read
WholeBody == HandleRead(dWire, <<>>)

\* C10: however the body is split into reads, the loop handles the same
\* events, and ends the same way, as when the body arrives in one read: a
\* trailing partial frame is kept for the next read, never parsed alone.
C10_ChunkBoundaryInvariance ==
    dStatus # "reading" =>
        /\ dEvents = WholeBody.events
        /\ dStatus = IF WholeBody.status = "reading" THEN "done" ELSE WholeBody.status


(***************************************************************************)
(* SpecChat: one chat controller, its callers and its transport.           *)
(***************************************************************************)
InitChat == ChatInit /\ Mounted /\ SanIdle /\ RelayIdle /\ DecIdle /\ RegIdle /\ ReqIdle /\ QueueIdle /\ FetchIdle

NextChat ==
    \/ Render /\ UNCHANGED notChat
    \/ (\E content \in SendContents : SendMessage(content))
          /\ UNCHANGED <<storeVars, notChat>>
    \/ (\E r \in RequestIds, ok \in BOOLEAN : FetchResolves(r, ok))
          /\ UNCHANGED <<storeVars, notChat>>
    \/ (\E r \in RequestIds, chunk \in ChatChunks : ReadChunk(r, chunk))
          /\ UNCHANGED <<storeVars, notChat>>
    \/ (\E r \in RequestIds : ReadEnd(r)) /\ UNCHANGED <<storeVars, notChat>>
    \/ (\E r \in RequestIds : AbortLands(r)) /\ UNCHANGED <<storeVars, notChat>>
    \/ StopStreamingDirect /\ UNCHANGED <<storeVars, notChat>>
    \/ StopStreamingChannel /\ UNCHANGED <<storeVars, notChat>>
    \/ (\E r \in RequestIds, ok \in BOOLEAN : MutationSettles(r, ok))
          /\ UNCHANGED <<storeVars, notChat>>
    \/ (\E data \in ChannelEvents : OnData(data))
          /\ UNCHANGED <<storeVars, notChat>>

SpecChat == InitChat /\ [][NextChat]_vars

\* the message with this id, in a list that holds it
HasMessage(messages, id) == \E i \in 1..Len(messages) : messages[i].id = id
ContentOf(messages, id) ==
    messages[CHOOSE i \in 1..Len(messages) : messages[i].id = id].content

\* C11: a frame that fails StreamEvent validation, schema-invalid or
\* unparseable, is skipped: it never ends a request's read loop and never
\* leaves an error in the placeholder.
C11_InvalidFrameSkipped ==
    \A r \in RequestIds :
        /\ cRequests[r].ended # "syntaxError"
        /\ HasMessage(cMessages, cRequests[r].id)
             => ContentOf(cMessages, cRequests[r].id) # ErrorAnnotation("Unexpected token")

C13_SecondSendRejected ==
    [][ \A content \in SendContents :
          (SendMessage(content) /\ cIsStreaming)
             => UNCHANGED <<cMessages, cRequests>> ]_vars

\* the ids of the messages of a list
IdsOf(messages) == { messages[i].id : i \in 1..Len(messages) }

C15_ContentIsDeltasSoFar ==
    \A r \in RequestIds :
        ( /\ cIsStreaming /\ cStreamingId = cRequests[r].id
          /\ ~cRequests[r].completed
          /\ HasMessage(cMessages, cRequests[r].id) )
        => ContentOf(cMessages, cRequests[r].id) = cRequests[r].deltas

\* C16: handling a complete event leaves in the placeholder the joined text
\* of the text blocks of the final message, or, when it has none, the joined
\* text of the delta events handled for the placeholder before it.
C16_CompleteSetsFinalText ==
    [][ /\ \A data \in ChannelEvents :
              ( /\ OnData(data) /\ data.type = "complete"
                /\ HasMessage(cMessages, cView.streamingMessageId) )
                 => ContentOf(cMessages', cView.streamingMessageId)
                      = IF data.response.text # <<>> THEN data.response.text
                        ELSE cRequests[RequestOf(cView.streamingMessageId)].deltas
        /\ \A r \in RequestIds : \A text \in {<<>>, <<"x">>} :
              ( /\ ReadChunk(r, Frame(CompleteWith(text)))
                /\ HasMessage(cMessages, cRequests[r].id) )
                 => ContentOf(cMessages', cRequests[r].id)
                      = IF text # <<>> THEN text ELSE cRequests[r].deltas
      ]_vars

\* C17: once a request's complete event has been handled the controller is
\* no longer streaming that request.
C17_CompleteEndsStreaming ==
    \A r \in RequestIds :
        cRequests[r].completed => ~(cIsStreaming /\ cStreamingId = cRequests[r].id)

\* how a direct request ended
EndedInError(request) == request.ended \in {"streamError", "httpError"}
EndedInCancel(request) == request.ended \in {"abortedFetch", "abortedRead"}

\* C18: in the direct controller, a request ended by an error event or by a
\* non-success HTTP response keeps its placeholder, with the error
\* annotation as content; a request ended by a user cancellation has its
\* placeholder removed and no error annotation is written.
C18_ErrorAnnotatedCancelRemoved ==
    \A r \in RequestIds :
        /\ EndedInError(cRequests[r]) =>
              /\ HasMessage(cMessages, cRequests[r].id)
              /\ ContentOf(cMessages, cRequests[r].id) \in
                    { ErrorAnnotation("provider error"),
                      ErrorAnnotation("HTTP error! status: 500") }
        /\ EndedInCancel(cRequests[r]) => ~HasMessage(cMessages, cRequests[r].id)

\* C19: after stopStreaming() has cancelled a request into whose placeholder
\* at least one delta had been folded, and the cancellation has settled, the
\* placeholder is still in the list with exactly that partial content.
C19_StopKeepsPartialContent ==
    \A r \in RequestIds :
        (EndedInCancel(cRequests[r]) /\ cRequests[r].deltas # <<>>)
        => /\ HasMessage(cMessages, cRequests[r].id)
           /\ ContentOf(cMessages, cRequests[r].id) = cRequests[r].deltas

\* C20: after stopStreaming() has cancelled a request for which no delta had
\* arrived, whether its fetch or its first read was pending, and the
\* cancellation has settled, its empty placeholder is no longer in the list.
C20_StopRemovesEmptyPlaceholder ==
    \A r \in RequestIds :
        ( /\ EndedInCancel(cRequests[r])
          /\ cRequests[r].deltas = <<>> /\ ~cRequests[r].completed )
        => ~HasMessage(cMessages, cRequests[r].id)

(***************************************************************************)
(* SpecStore: a controller from its mount on, with the persisted mirror    *)
(* and resetChat.                                                          *)
(***************************************************************************)
\* what the controller of SpecStore is sent and what it reads
StoreContents == { <<" ", Quote, "a">> }
StoreChunks ==
    { Frame(DeltaX), Frame(CompleteWith(<<"x">>)), Frame(ErrorEvent("provider error")) }
StoreEvents == { DeltaX, CompleteWith(<<"x">>), ErrorEvent("provider error") }

\* the sends of one session
MaxSends == 1

InitStore ==
    /\ ChatInit
    /\ cStore \in Snapshots
    /\ cBoot = NotRead
    /\ cCrashed = FALSE
    /\ SanIdle /\ RelayIdle /\ DecIdle /\ RegIdle /\ ReqIdle /\ QueueIdle /\ FetchIdle

NextStore ==
    \/ Mount /\ UNCHANGED notChat
    \/ Render /\ UNCHANGED notChat
    \/ ResetChat /\ UNCHANGED notChat
    \/ (\E content \in StoreContents : IsMounted /\ cCalls < MaxSends /\ SendMessage(content))
          /\ UNCHANGED <<storeVars, notChat>>
    \/ (\E r \in RequestIds, ok \in BOOLEAN : FetchResolves(r, ok))
          /\ UNCHANGED <<storeVars, notChat>>
    \/ (\E r \in RequestIds, chunk \in StoreChunks : ReadChunk(r, chunk))
          /\ UNCHANGED <<storeVars, notChat>>
    \/ (\E r \in RequestIds : ReadEnd(r)) /\ UNCHANGED <<storeVars, notChat>>
    \/ (\E r \in RequestIds : AbortLands(r)) /\ UNCHANGED <<storeVars, notChat>>
    \/ (IsMounted /\ StopStreamingDirect) /\ UNCHANGED <<storeVars, notChat>>
    \/ (IsMounted /\ StopStreamingChannel) /\ UNCHANGED <<storeVars, notChat>>
    \/ (\E r \in RequestIds, ok \in BOOLEAN : MutationSettles(r, ok))
          /\ UNCHANGED <<storeVars, notChat>>
    \/ (\E data \in StoreEvents : OnData(data)) /\ UNCHANGED <<storeVars, notChat>>

SpecStore == InitStore /\ [][NextStore]_vars

\* a request of the direct controller that is still waiting
InFlight(r) == cMode = "direct" /\ cRequests[r].pc \in {"fetch", "read"}

\* C21: every resetChat() leaves the controller idle, the message list empty
\* and the persisted mirror cleared; it cancels every request that is in
\* flight; and once the list is empty no step other than a sendMessage call
\* or the load at mount puts a message into it.
C21_ResetLeavesIdleAndEmpty ==
    [][ /\ ResetChat =>
            /\ cIsStreaming' = FALSE
            /\ cStreamingId' = NoId
            /\ cMessages' = <<>>
            /\ cStore' = Absent
            /\ \A r \in RequestIds : InFlight(r) => cRequests'[r].aborted
        /\ (cMessages = <<>> /\ cCalls' = cCalls /\ cBoot' = cBoot)
              => cMessages' = <<>> ]_vars

\* C27: the load at mount lets no exception out; a stored text that does
\* not parse leaves the message list empty, and the stored text of a list
\* makes that list the message list.
C27_LoadFallsBackToEmpty ==
    [][ Mount =>
          /\ cCrashed' = FALSE
          /\ cStore = Malformed => cMessages' = <<>>
          /\ \A m \in SnapshotLists : cStore = Stored(m) => cMessages' = m ]_vars

\* a controller has mounted on a stored text that does not parse
C27_Witness ==
    /\ cBoot = Malformed
    /\ ~ParsesStored(cBoot.text)
    /\ cMessages = <<>>
    /\ cCrashed = FALSE

\* every queued update has been rendered and every effect has run
Settled == IsMounted /\ cView = CurrentView /\ cStore # Absent

\* C28: once the updates of the message list have settled, the stored text
\* parses and its messages are exactly the message list.
C28_SnapshotDecodesToList ==
    Settled =>
        /\ cStore.kind = "item"
        /\ ParsesStored(cStore.text)
        /\ ParsedStored(cStore.text) = cMessages

\* a settled controller whose request ended in an error annotation behind
\* the messages of an earlier session
C28_Witness ==
    /\ Settled
    /\ Len(cMessages) = 4
    /\ \E r \in RequestIds :
          /\ cRequests[r].ended \in {"httpError", "streamError", "syntaxError"}
          /\ HasMessage(cMessages, cRequests[r].id)
          /\ ContentOf(cMessages, cRequests[r].id) # <<>>

(***************************************************************************)
(* SpecChannel: the channel registry under any sendMessages calls and      *)
(* onMessageChunk subscriptions.                                           *)
(***************************************************************************)
InitChannel == RegInit /\ SanIdle /\ RelayIdle /\ DecIdle /\ ChatIdle /\ ReqIdle /\ QueueIdle /\ FetchIdle

NextChannel ==
    \/ (\E c \in ChannelIds, valid \in BOOLEAN : StartRun(c, valid)) /\ UNCHANGED notChannel
    \/ (\E r \in RunIds : PublishDelta(r)) /\ UNCHANGED notChannel
    \/ (\E r \in RunIds : CompleteRun(r)) /\ UNCHANGED notChannel
    \/ (\E r \in RunIds : RunFails(r)) /\ UNCHANGED notChannel
    \/ (\E r \in RunIds : CleanupFires(r)) /\ UNCHANGED notChannel
    \/ (\E c \in ChannelIds : Subscribe(c)) /\ UNCHANGED notChannel
    \/ (\E s \in SubIds : Unsubscribe(s)) /\ UNCHANGED notChannel

SpecChannel == InitChannel /\ [][NextChannel]_vars

\* the runs and the subscriptions of a channel
RunsOn(channelId) == { r \in RunIds : gRuns[r].channelId = channelId }
SubsOn(channelId) == { s \in SubIds : gSubs[s].channelId = channelId }

\* C23: the subscription of a request has been handed every StreamEvent the
\* request has published, in the order of publication, also when the run
\* published before the subscription's listener was attached.
C23_SubscriberReceivesAll ==
    \A s \in SubIds, r \in RunIds :
        ( /\ RunsOn(gSubs[s].channelId) = {r}
          /\ SubsOn(gSubs[s].channelId) = {s}
          /\ gSubs[s].status = "attached" )
        => gSubs[s].received = gRuns[r].published

\* C24: the cleanup timer of a completed run removes the channel from the
\* map, and a run that fails, in validation or in the provider stream, has
\* removed its channel when the mutation throws, with or without a
\* subscription attached.
C24_ChannelsCollected ==
    [][ /\ \A r \in RunIds :
              (CleanupFires(r) \/ RunFails(r))
                 => channelEmitters'[gRuns[r].channelId] = NoEmitter
        /\ \A c \in ChannelIds :
              StartRun(c, FALSE) => channelEmitters'[c] = NoEmitter ]_vars

\* the events a subscription has been handed since the emitter had emitted k
Since(sub, k) == SubSeq(sub.received, k - sub.from + 1, Len(sub.received))

\* C25: two subscriptions attached to the same emitter have been handed the
\* same events in the same order since the later of them attached, and these
\* are all the events emitted since then.
C25_Broadcast ==
    \A s, t \in SubIds :
        ( /\ s # t
          /\ gSubs[s].status = "attached" /\ gSubs[t].status = "attached"
          /\ gSubs[s].emitter = gSubs[t].emitter )
        => LET log == gEmitted[gSubs[s].emitter]
               k == IF gSubs[s].from >= gSubs[t].from
                    THEN gSubs[s].from ELSE gSubs[t].from
           IN  /\ Since(gSubs[s], k) = SubSeq(log, k + 1, Len(log))
               /\ Since(gSubs[t], k) = SubSeq(log, k + 1, Len(log))

\* two subscriptions on one emitter have both been handed a delta and the
\* complete event of a run
C25_Witness ==
    \E s, t \in SubIds :
        /\ s # t
        /\ gSubs[s].status = "attached" /\ gSubs[t].status = "attached"
        /\ gSubs[s].emitter = gSubs[t].emitter
        /\ Len(gSubs[s].received) >= 2
        /\ gSubs[s].received = gSubs[t].received

\* C26: no two sendMessages runs are publishing on the same channel at the
\* same time.
C26_OneProducerPerChannel ==
    \A r1, r2 \in RunIds :
        ( /\ r1 # r2
          /\ gRuns[r1].pc = "streaming" /\ gRuns[r2].pc = "streaming" )
        => gRuns[r1].channelId # gRuns[r2].channelId

(***************************************************************************)
(* SpecRequest: the useStreamingRequest hook under any calls of start,     *)
(* abort and handleChunk, with its timers.                                 *)
(***************************************************************************)
InitRequest == ReqInit /\ SanIdle /\ RelayIdle /\ DecIdle /\ ChatIdle /\ RegIdle /\ QueueIdle /\ FetchIdle

NextRequest ==
    \/ Start /\ UNCHANGED notRequest
    \/ Abort /\ UNCHANGED notRequest
    \/ (\E id \in qTimers : TimerFires(id)) /\ UNCHANGED notRequest
    \/ (\E chunk \in HookChunks : HandleChunk(chunk)) /\ UNCHANGED notRequest
    \/ RenderHook /\ UNCHANGED notRequest

SpecRequest == InitRequest /\ [][NextRequest]_vars

\* C29: a user's abort() of a streaming request that has no error records
\* no error and calls no error callback.
C29_StopIsNotAnError ==
    [][ (Abort /\ qIsStreaming /\ qError = NoError)
           => (qError' = NoError /\ qCalls' = qCalls) ]_vars

\* C30: when a timeout timer fires, the hook is left as a user's abort()
\* from the same state would leave it: the same isStreaming, error, abort
\* signal, timeoutIdRef and pending timers, and the same callback calls.
C30_TimeoutAbortsLikeUser ==
    [][ \A id \in qTimers :
          TimerFires(id) =>
             LET user == abort(CurrentHook, NoReason)
             IN  /\ qIsStreaming' = user.isStreaming
                 /\ qError' = user.error
                 /\ qController' = user.controller
                 /\ qTimeoutId' = user.timeoutId
                 /\ qTimers' = user.timers
                 /\ qCalls' = user.calls ]_vars

(***************************************************************************)
(* Further properties of the chat controller (SpecChat).                   *)
(***************************************************************************)
\* the step changes at most the content of the message with the id
OnlyContentOf(id) ==
    /\ Len(cMessages') = Len(cMessages)
    /\ \A i \in 1..Len(cMessages) :
          /\ cMessages'[i].id = cMessages[i].id
          /\ cMessages'[i].role = cMessages[i].role
          /\ cMessages[i].id # id => cMessages'[i] = cMessages[i]

\* C31: every content update a sendMessage of the direct controller makes
\* while it streams (a delta, the final text, an error annotation) changes
\* only the content of the placeholder that sendMessage created: ids, roles,
\* the other messages, the order and the length of the list stay.
C31_UpdatesOnlyOwnPlaceholder ==
    [][ \A r \in RequestIds :
          ( \/ \E chunk \in ChatChunks : ReadChunk(r, chunk)
            \/ \E ok \in BOOLEAN : FetchResolves(r, ok)
            \/ ReadEnd(r) )
          => OnlyContentOf(cRequests[r].id) ]_vars

\* the second request of a session has put text into its placeholder while
\* the placeholder of the first keeps another text
C31_Witness ==
    /\ cMode = "direct"
    /\ Len(cMessages) = 4
    /\ cMessages[2].role = "assistant" /\ cMessages[4].role = "assistant"
    /\ cMessages[2].content # <<>>
    /\ cMessages[4].content # <<>>
    /\ cMessages[2].content # cMessages[4].content
    /\ cRequests[2].deltas # <<>>

\* C35: in the direct controller, while a request that has not been
\* cancelled is in flight, the stored abort handle is the AbortController of
\* that request and isStreaming is true (so no finally block of an earlier
\* sendMessage has cleared them, and stopStreaming cancels that request).
C35_HandleIsTheCurrentRequest ==
    \A r \in RequestIds :
        (InFlight(r) /\ ~cRequests[r].aborted)
           => (cAbort = cRequests[r].id /\ cIsStreaming)

\* C36: streamingMessageId is set exactly when isStreaming is true, and
\* when it is set it is the id of an assistant message of the list.
C36_StreamingIdIffStreaming ==
    /\ (cStreamingId # NoId) <=> cIsStreaming
    /\ cStreamingId # NoId =>
          \E i \in 1..Len(cMessages) :
             cMessages[i].id = cStreamingId /\ cMessages[i].role = "assistant"

(***************************************************************************)
(* Further properties of the wire format (SpecDecoder)                     *)
(***************************************************************************)
\* the body is the single frame of ev and has arrived whole in one read
DecodedWhole(ev) == dWire = Frame(ev) /\ dReads = 1 /\ dPos = Len(dWire)

PublishingTo(r, s) ==
    /\ gRuns[r].pc = "streaming"
    /\ gRuns[r].channelId = gSubs[s].channelId
    /\ gRuns[r].emitter = gSubs[s].emitter
    /\ gSubs[s].status = "attached"

\* C33: the cleanup timer of a completed run never tears down a later run
\* on the same channel: when it fires while another run is still publishing
\* to an attached subscriber, that subscriber keeps its listener and the
\* channel keeps its emitter.
C33_CleanupSparesLaterRun ==
    [][ \A r \in RunIds :
          CleanupFires(r) =>
             \A s \in SubIds :
                (\E later \in RunIds : later > r /\ PublishingTo(later, s))
                   => /\ gSubs'[s].status = "attached"
                      /\ channelEmitters'[gSubs[s].channelId] = gSubs[s].emitter ]_vars

(***************************************************************************)
(* The relay with one process-wide emitter (src/server/trpc.ts).  The      *)
(* module creates `ee` when it is loaded; sendMessages emits on it and     *)
(* onMessageChunk iterates its "chunk" events.  Neither procedure looks at *)
(* a channelId: the one kept in a run or a subscription here is the id of  *)
(* the client that made the call.                                          *)
(***************************************************************************)
ee == 1
ClientChannelIds == {"c1", "c2"}

EeInit ==
    /\ channelEmitters = [c \in ChannelIds |-> NoEmitter]
    /\ gEmitted = <<<<>>>>
    /\ gRuns = <<>>
    /\ gSubs = <<>>
    /\ gTimers = {}

\* sendMessages(input) up to the provider call; sanitizeMessages and
\* validateConversation throw out of the procedure when `valid` is false
StartRunEe(channelId, valid) ==
    /\ Len(gRuns) + Len(gSubs) < MaxRequests
    /\ gRuns' = Append(gRuns, Run(channelId, ee, IF valid THEN "streaming" ELSE "failed"))
    /\ UNCHANGED <<channelEmitters, gEmitted, gSubs, gTimers>>

\* stream.finalMessage() resolves: enqueue({type: "complete", ...})
CompleteRunEe(r) ==
    /\ gRuns[r].pc = "streaming"
    /\ LET data == RunComplete(Len(gRuns[r].published))
       IN  /\ gRuns' = [gRuns EXCEPT ![r].published = Append(@, data), ![r].pc = "done"]
           /\ gEmitted' = [gEmitted EXCEPT ![ee] = Append(@, data)]
           /\ gSubs' = emit(gSubs, ee, data)
    /\ UNCHANGED <<channelEmitters, gTimers>>

\* the provider stream throws: the exception leaves the procedure
RunFailsEe(r) ==
    /\ gRuns[r].pc = "streaming"
    /\ gRuns' = [gRuns EXCEPT ![r].pc = "failed"]
    /\ UNCHANGED <<channelEmitters, gEmitted, gSubs, gTimers>>

\* onMessageChunk starts: ee.toIterable("chunk") attaches the listener
SubscribeEe(channelId) ==
    /\ Len(gRuns) + Len(gSubs) < MaxRequests
    /\ gSubs' = Append(gSubs, Subscription(channelId, ee, Len(gEmitted[ee])))
    /\ UNCHANGED <<channelEmitters, gEmitted, gRuns, gTimers>>

(***************************************************************************)
(* SpecBroadcast: two clients on the relay with the process-wide emitter.  *)
(***************************************************************************)
InitBroadcast == EeInit /\ SanIdle /\ RelayIdle /\ DecIdle /\ ChatIdle /\ ReqIdle /\ QueueIdle /\ FetchIdle

NextBroadcast ==
    \/ (\E c \in ClientChannelIds, valid \in BOOLEAN : StartRunEe(c, valid)) /\ UNCHANGED notChannel
    \/ (\E r \in RunIds : PublishDelta(r)) /\ UNCHANGED notChannel
    \/ (\E r \in RunIds : CompleteRunEe(r)) /\ UNCHANGED notChannel
    \/ (\E r \in RunIds : RunFailsEe(r)) /\ UNCHANGED notChannel
    \/ (\E c \in ClientChannelIds : SubscribeEe(c)) /\ UNCHANGED notChannel
    \/ (\E s \in SubIds : Unsubscribe(s)) /\ UNCHANGED notChannel

SpecBroadcast == InitBroadcast /\ [][NextBroadcast]_vars

\* C34: channel isolation.  A subscription is handed an event only in a
\* step in which a run of its own channel publishes one: the events of a
\* request on another channel are never delivered to it.
C34_ChannelIsolation ==
    [][ \A s \in SubIds :
          gSubs'[s].received # gSubs[s].received
             => \E r \in RunIds :
                   /\ gRuns'[r].published # gRuns[r].published
                   /\ gRuns[r].channelId = gSubs[s].channelId ]_vars

(***************************************************************************)
(* Further properties of useStreamingRequest (SpecRequest)                 *)
(***************************************************************************)
\* C38: at most one timeout timer is pending, the pending one is the timer
\* of the latest start(), and none is pending once the request has
\* completed or been aborted: so no timer of an earlier start() is left to
\* fire into the request of a later start().
C38_OneTimerOfCurrentRequest ==
    /\ Cardinality(qTimers) <= 1
    /\ \A id \in qTimers : id = qStarts /\ id = qTimeoutId
    /\ ~qIsStreaming => qTimers = {}

(***************************************************************************)
(* SpecQueue: one useRequestQueue with its enqueue calls.                  *)
(***************************************************************************)
InitQueue ==
    /\ QueueInit
    /\ SanIdle /\ RelayIdle /\ DecIdle /\ ChatIdle /\ RegIdle /\ ReqIdle /\ FetchIdle

NextQueue ==
    \/ (\E p \in Priorities : Enqueue(p)) /\ UNCHANGED notQueue
    \/ RenderQueue /\ UNCHANGED notQueue
    \/ (\E ok \in BOOLEAN : ExecuteSettles(ok)) /\ UNCHANGED notQueue
    \/ (\E view \in uTimers : RetryTimerFires(view)) /\ UNCHANGED notQueue

SpecQueue == InitQueue /\ [][NextQueue]_vars

\* the calls of onComplete or onError of request id
CallbacksOf(id) == { i \in 1..Len(uCallbacks) : uCallbacks[i].id = id }

\* C37: every enqueued request is executed at most once and at most one of
\* its onComplete / onError callbacks is called, once; when processQueue is
\* not awaiting it, a request that was executed has had exactly one.
C37_ExecutedAtMostOnce ==
    \A id \in 1..MaxEnqueued :
        /\ uExecuted[id] <= 1
        /\ Cardinality(CallbacksOf(id)) <= 1
        /\ (uExecuted[id] = 1 /\ ~(uRun.pc = "awaiting" /\ uRun.request.id = id))
              => Cardinality(CallbacksOf(id)) = 1

(***************************************************************************)
(* SpecFetch: one call of the fetch option of the batch link.  Every       *)
(* fetch(url, options) settles and every delay elapses (weak fairness).    *)
(***************************************************************************)
InitFetch ==
    /\ FetchInit
    /\ SanIdle /\ RelayIdle /\ DecIdle /\ ChatIdle /\ RegIdle /\ ReqIdle /\ QueueIdle

NextFetch ==
    \/ (\E outcome \in Outcomes : FetchSettles(outcome)) /\ UNCHANGED notFetch
    \/ DelayElapses /\ UNCHANGED notFetch

SpecFetch == InitFetch /\ [][NextFetch]_vars /\ WF_vars(NextFetch)

\* an attempt that failed: a thrown error or a response with status >= 500
Failed(outcome) == outcome.kind = "error" \/ outcome.status >= 500

\* what the attempts so far allow
FetchRetriesAsStated ==
    /\ fCalls <= maxRetries + 1
    /\ fCalls = Len(fAttempts) + (IF fPc = "fetching" THEN 1 ELSE 0)
    /\ \A k \in 1..(Len(fAttempts) - 1) : Failed(fAttempts[k])
    /\ (fAttempts # <<>> /\ ~Failed(fAttempts[Len(fAttempts)]))
          => (fPc = "returned" /\ fResult = fAttempts[Len(fAttempts)])
    /\ fPc = "returned" => ~Failed(fAttempts[Len(fAttempts)])
    /\ fPc = "waiting" => Len(fAttempts) <= maxRetries
    /\ fPc = "thrown" =>
          /\ Len(fAttempts) = maxRetries + 1
          /\ Failed(fAttempts[Len(fAttempts)])
          /\ fResult.kind = "error" /\ fResult = fLastError
          /\ fAttempts[Len(fAttempts)].kind = "error" => fResult = fAttempts[Len(fAttempts)]

\* C39: the retrying fetch ends after at most maxRetries + 1 = 4 attempts.
\* It makes another attempt only after a thrown error or a response with
\* status >= 500, returns the first response with a status below 500
\* without a further attempt, and after the 4th failed attempt throws the
\* last error.
C39_RetryTerminates ==
    /\ []FetchRetriesAsStated
    /\ <>(fPc \in {"returned", "thrown"})

C39_Witness ==
    /\ fPc = "thrown" /\ fCalls = maxRetries + 1
    /\ fAttempts = <<Response(500), Thrown("network"), Response(503), Thrown("network")>>
    /\ fResult = Thrown("network")

====
